---- MODULE Spec2Model ----
(***************************************************************************)
(* Lynxa Pro backend: API-key issuance, validation, revocation and the     *)
(* user-management operations that touch the key store.                    *)
(*                                                                         *)
(* The relational store (api_keys, users, organizations, api_logs) is the  *)
(* shared state; every HTTP handler is one action that runs the whole      *)
(* handler and leaves its HTTP response in `resp`.  Time is the wall clock *)
(* (Date.now() / SQL NOW()) counted in clock units, ClockPerSec units to   *)
(* the second: TLC's integers are 32 bits wide and thirty days counted in  *)
(* milliseconds do not fit.                                                *)
(***************************************************************************)
EXTENDS Integers, Sequences, FiniteSets, TLC

VARIABLES
  now,            \* wall clock, clock units since the epoch
  api_keys,       \* rows of table api_keys
  users,          \* rows of table users
  organizations,  \* rows of table organizations
  api_logs,       \* rows of table api_logs, in insertion order
  apiKeys,        \* the in-memory Map of the Express server variant
  rnd,            \* number of random values drawn so far (each draw is fresh)
  ticks,          \* number of clock advances so far
  resp,           \* HTTP response of the request handled in this step
  last,           \* the response before it, where the client keeps it
  rate_limits,    \* rows of table rate_limits
  restarts,       \* number of process restarts (cold starts) so far
  inflight,       \* the requests being served query by query, per slot
  websocket,      \* the websocket server: its Map, its metrics and the sockets
  sse             \* the streaming response of a chat request, read by read

vars == <<now, api_keys, users, organizations, api_logs, apiKeys, rnd, ticks, resp, last,
          rate_limits, restarts, inflight, websocket, sse>>

----------------------------------------------------------------------------
(* Bounds of the model *)

MaxKeys == 3
MaxUsers == 2
MaxTicks == 2
MaxLogs == 1
MaxMem == 1
MaxRestarts == 2
MaxOrgs == 2
ClockPerSec == 4

----------------------------------------------------------------------------
(* Program constants *)

LifetimeSec == 30 * 24 * 60 * 60
LifetimeMs == LifetimeSec * ClockPerSec
YearMs == 365 * 24 * 60 * 60 * ClockPerSec
DefaultRateLimit == 1000
WindowSec == 3600
WindowMs == WindowSec * ClockPerSec

JWT_SECRET == "jwt-secret"
API_KEY_SECRET == "api-key-secret"

----------------------------------------------------------------------------
(* Strings are sequences of characters, so that endsWith is computed *)

GMAIL_SUFFIX == <<"@", "g", "m", "a", "i", "l", ".", "c", "o", "m">>
A_GMAIL == <<"a">> \o GMAIL_SUFFIX
A_YAHOO == <<"a", "@", "y", "a", "h", "o", "o", ".", "c", "o", "m">>
GMAIL_NO_AT == <<"g", "m", "a", "i", "l", ".", "c", "o", "m">>
ROOT_EMAIL == <<"r", "@", "x", ".", "i", "o">>
NEW_EMAIL == <<"n", "@", "x", ".", "i", "o">>

endsWith(s, suffix) ==
  /\ Len(s) >= Len(suffix)
  /\ SubSeq(s, Len(s) - Len(suffix) + 1, Len(s)) = suffix

(* A JSON value found in a request body field: undefined, a string or a number *)
JUndefined == [t |-> "undefined", s |-> <<>>, n |-> 0]
JString(s) == [t |-> "string", s |-> s, n |-> 0]
JNumber(n) == [t |-> "number", s |-> <<>>, n |-> n]

(* JavaScript truthiness of a JSON value *)
Truthy(v) ==
  CASE v.t = "undefined" -> FALSE
    [] v.t = "string" -> Len(v.s) > 0
    [] v.t = "number" -> v.n # 0

EmailInputs ==
  { JUndefined, JString(<<>>), JString(A_GMAIL), JString(A_YAHOO), JString(GMAIL_NO_AT),
    JNumber(123) }

----------------------------------------------------------------------------
(* Tokens *)

NoToken == [kind |-> "none", sub |-> <<>>, iat |-> 0, exp |-> 0, sig |-> "", rnd |-> 0]

(* jwt.sign(payload, secret): a deterministic function of payload and secret *)
JwtSign(payload, secret) ==
  [kind |-> "jwt", sub |-> payload.email, iat |-> payload.iat, exp |-> payload.exp,
   sig |-> secret, rnd |-> 0]

(* jwt.verify(token, secret): throws unless the token is a JWT signed with the
   secret whose exp lies after the current second *)
JwtVerifyOk(token, secret, clock) ==
  /\ token.kind = "jwt"
  /\ token.sig = secret
  /\ ~ (clock \div ClockPerSec >= token.exp)

(* `lynx_${crypto.randomBytes(16).toString('hex')}_${Date.now()}` *)
LynxToken(r, clock) ==
  [kind |-> "lynx", sub |-> <<>>, iat |-> clock, exp |-> 0, sig |-> "", rnd |-> r]

(* `lynxa_pro_${crypto.randomUUID()}` *)
PlainKey(r) ==
  [kind |-> "lynxa_pro", sub |-> <<>>, iat |-> 0, exp |-> 0, sig |-> "", rnd |-> r]

(* crypto.createHmac('sha256', secret).update(key).digest('hex'): injective on
   the keys of the model *)
HmacHex(secret, key) == [secret |-> secret, key |-> key]

(* A token nobody issued: a JWT signed with another secret, and a random string *)
ForgedJwt == [kind |-> "jwt", sub |-> A_GMAIL, iat |-> 0, exp |-> LifetimeSec, sig |-> "other-secret", rnd |-> 0]
GarbageToken == [kind |-> "raw", sub |-> <<>>, iat |-> 0, exp |-> 0, sig |-> "", rnd |-> 0]

(* A JWT signed with the service's secret that no INSERT ever stored: what
   generate-key has signed when its INSERT fails, or what any holder of the
   secret can sign.  Its subject is no Gmail address, so generate-key never
   issues it *)
UnstoredJwt ==
  [kind |-> "jwt", sub |-> A_YAHOO, iat |-> 0, exp |-> LifetimeSec, sig |-> JWT_SECRET, rnd |-> 0]

(* How a request carries its token: no credential at all, "Authorization:
   Bearer <token>", "Authorization: <token>" without the prefix, or the
   X-API-Key header *)
Schemes == {"absent", "bearer", "bare", "xkey"}

----------------------------------------------------------------------------
(* Rows and queries of the store *)

NoUser == 0
NoOrg == 0

(* INSERT INTO api_keys: columns left out take the schema defaults
   (revoked FALSE, rate_limit 1000, created_at NOW()) *)
KeyRow(token, email, user_id, expires, clock) ==
  [api_key |-> token, email |-> email, user_id |-> user_id, expires |-> expires,
   revoked |-> FALSE, rate_limit |-> DefaultRateLimit, created_at |-> clock]

(* api_keys.api_key is UNIQUE: an INSERT of a token already present fails *)
UniqueViolation(token) == \E k \in api_keys : k.api_key = token

(* The lookup with the expiry test left out *)
SelectUnrevokedKey(token) ==
  { k \in api_keys : k.api_key = token /\ k.revoked = FALSE }

(* The lookup with the revocation test left out *)
SelectUnexpiredKey(token) ==
  { k \in api_keys : k.api_key = token /\ k.expires > now }

(* SELECT * FROM api_keys WHERE api_key = $1 AND expires > NOW() AND revoked = FALSE *)
SelectUsableKey(token) ==
  { k \in api_keys : k.api_key = token /\ k.expires > now /\ k.revoked = FALSE }

(* The JOIN with the expires and revoked conditions left out *)
SelectKeyWithUserAny(token) ==
  { u \in users : \E k \in api_keys : k.api_key = token /\ k.user_id = u.id }

(* SELECT ak.*, u.id as user_id, u.email, u.role, u.organization_id
   FROM api_keys ak JOIN users u ON ak.user_id = u.id
   WHERE ak.api_key = $1 AND ak.expires > NOW() AND ak.revoked = FALSE *)
SelectKeyWithUser(token) ==
  { u \in users : \E k \in SelectUsableKey(token) : k.user_id = u.id }

(* DELETE FROM api_keys WHERE api_key = $1: a hard delete in place of the
   soft revocation *)
DeletedByToken(token) == { k \in api_keys : k.api_key # token }

(* UPDATE api_keys SET revoked = TRUE WHERE api_key = $1 *)
RevokedByToken(token) ==
  { IF k.api_key = token THEN [k EXCEPT !.revoked = TRUE] ELSE k : k \in api_keys }

(* rowCount had the UPDATE skipped the rows already revoked
   (WHERE api_key = $1 AND revoked = FALSE) *)
RowCountChanged(token) ==
  Cardinality({ k \in api_keys : k.api_key = token /\ k.revoked = FALSE })

(* rowCount of that UPDATE: the rows its WHERE clause matches *)
RowCountByToken(token) == Cardinality({ k \in api_keys : k.api_key = token })

(* handleDeleteUser without its UPDATE of api_keys: the user is deactivated
   and the keys stay as they are *)
RevokedByNobody(user_id) == api_keys

(* UPDATE api_keys SET revoked = (user_id = $1): the WHERE clause folded into
   the assignment, which clears the flag on everybody else's keys *)
RevokedOnlyUser(user_id) ==
  { [k EXCEPT !.revoked = (k.user_id = user_id)] : k \in api_keys }

(* UPDATE api_keys SET revoked = TRUE WHERE user_id = $1 *)
RevokedByUser(user_id) ==
  { IF k.user_id = user_id THEN [k EXCEPT !.revoked = TRUE] ELSE k : k \in api_keys }

(* Tokens a client may present: every token ever stored, every key of the
   in-memory map, the key the response the client kept handed out, and two
   that were never issued *)
KnownTokens ==
  { k.api_key : k \in api_keys } \cup { m.hash.key : m \in apiKeys }
    \cup ({ last.issued } \ { NoToken }) \cup { ForgedJwt, GarbageToken }

----------------------------------------------------------------------------
(* HTTP requests and responses *)

(* The credential a request carries *)
Credentials ==
  { [scheme |-> "absent", token |-> NoToken] }
    \cup { [scheme |-> s, token |-> t] : s \in Schemes \ {"absent"}, t \in KnownTokens }

(* The response in flight; NoResp when no request is being answered.  token is
   the key the handler extracted from the request, issued the key it handed
   out, input the e-mail field of the body, user the resolved principal, next
   whether the request got past authentication, db whether every query the
   handler ran succeeded, log how the INSERT INTO api_logs ended ("none" when
   the handler did not run it), owner the userId of the session, keys the
   key rows a listing returned and users the user rows it returned *)
NoResp ==
  [op |-> "none", status |-> 0, msg |-> "", scheme |-> "absent", token |-> NoToken,
   issued |-> NoToken, input |-> JUndefined, user |-> <<>>, next |-> FALSE, db |-> TRUE,
   log |-> "none", owner |-> NoUser, keys |-> <<>>, users |-> {}]

(* res.status(status).json({error/code/message: msg}) of handler op *)
Reply(op, status, msg) == [NoResp EXCEPT !.op = op, !.status = status, !.msg = msg]

(* The response leaves; the next request can be taken *)
Deliver ==
  /\ resp # NoResp
  /\ resp' = NoResp
  /\ UNCHANGED <<now, api_keys, users, organizations, api_logs, apiKeys, rnd, ticks, last, rate_limits, restarts, inflight, websocket, sse>>

(* The response leaves and the client keeps it to compare the next one with *)
DeliverKept ==
  /\ resp # NoResp
  /\ resp' = NoResp
  /\ last' = resp
  /\ UNCHANGED <<now, api_keys, users, organizations, api_logs, apiKeys, rnd, ticks, rate_limits, restarts, inflight, websocket, sse>>

----------------------------------------------------------------------------
(* The clock *)

HalfSecond == ClockPerSec \div 2
TickSteps == { HalfSecond, LifetimeMs - 1 }

Tick ==
  /\ resp = NoResp
  /\ ticks < MaxTicks
  /\ \E d \in TickSteps : now' = now + d
  /\ ticks' = ticks + 1
  /\ UNCHANGED <<api_keys, users, organizations, api_logs, apiKeys, rnd, resp, last, rate_limits, restarts, inflight, websocket, sse>>

(* The process restarts (a cold start): module-level state, the Map of the
   Express server variant, starts empty again; the store is another process *)
Restart ==
  /\ resp = NoResp
  /\ restarts < MaxRestarts
  /\ restarts' = restarts + 1
  /\ apiKeys' = {}
  /\ UNCHANGED <<now, api_keys, users, organizations, api_logs, rnd, ticks, resp, last,
                 rate_limits, inflight, websocket, sse>>

----------------------------------------------------------------------------
(* Key issuance *)

Methods == {"POST", "GET"}

(* `!email || !email.endsWith('@gmail.com')` for a string email *)
InvalidGmail(email) == ~ Truthy(email) \/ ~ endsWith(email.s, GMAIL_SUFFIX)

(* email.endsWith is not a function: a truthy email that is no string makes
   the test itself throw a TypeError *)
EndsWithThrows(email) == Truthy(email) /\ email.t # "string"

(* Math.floor(Date.now() / 1000) *)
NowSeconds == now \div ClockPerSec

(* The payload with a lifetime of 31 days *)
KeyPayloadLong(email) ==
  [email |-> email.s, iat |-> NowSeconds, exp |-> NowSeconds + 31 * 24 * 60 * 60]

(* The JWT payload built by generate-key.js *)
KeyPayload(email) ==
  [email |-> email.s, iat |-> NowSeconds, exp |-> NowSeconds + LifetimeSec]

(* new Date(payload.exp): the seconds of the payload taken for milliseconds *)
ExpiresOfUnscaled(payload) == (payload.exp * ClockPerSec) \div 1000

(* new Date(payload.exp * 1000).toISOString(), read back as a timestamp *)
ExpiresOf(payload) == payload.exp * ClockPerSec

(* api/generate-key.js: POST /api/keys/generate backed by the store *)
GenerateKey ==
  /\ resp = NoResp
  /\ \E method \in Methods :
       IF method # "POST"
         THEN /\ resp' = Reply("generate", 405, "Method not allowed")
              /\ UNCHANGED api_keys
       ELSE \E email \in EmailInputs :
         LET payload == KeyPayload(email)
             apiKey == JwtSign(payload, JWT_SECRET)
             r == [Reply("generate", 0, "") EXCEPT !.input = email]
         IN
         IF EndsWithThrows(email)
           THEN /\ resp' = [r EXCEPT !.status = 500, !.msg = "Server error"]
                /\ UNCHANGED api_keys
         ELSE IF InvalidGmail(email)
           THEN /\ resp' = [r EXCEPT !.status = 400, !.msg = "Valid Gmail address required"]
                /\ UNCHANGED api_keys
         ELSE \E dbOk \in BOOLEAN :
           IF ~ dbOk \/ UniqueViolation(apiKey)
             THEN /\ resp' = [r EXCEPT !.status = 500, !.msg = "Server error", !.db = dbOk]
                  /\ UNCHANGED api_keys
           ELSE /\ Cardinality(api_keys) < MaxKeys
                /\ api_keys' = api_keys \cup
                                 { KeyRow(apiKey, email.s, NoUser, ExpiresOf(payload), now) }
                /\ resp' = [r EXCEPT !.status = 200, !.msg = "Key generated", !.issued = apiKey]
  /\ UNCHANGED <<now, users, organizations, api_logs, apiKeys, rnd, ticks, last, rate_limits, restarts, inflight, websocket, sse>>

(* Express server variant: POST /api/keys/generate backed by the in-memory Map *)
GenerateKeyMem ==
  /\ resp = NoResp
  /\ Cardinality(apiKeys) < MaxMem
  /\ \E email \in EmailInputs :
       LET plainKey == PlainKey(rnd + 1)
           hashedKey == HmacHex(API_KEY_SECRET, plainKey)
           r == [Reply("generate_mem", 0, "") EXCEPT !.input = email]
       IN
       IF EndsWithThrows(email)
         THEN /\ resp' = [r EXCEPT !.status = 500, !.msg = "Failed to generate key"]
              /\ UNCHANGED <<apiKeys, rnd>>
       ELSE IF InvalidGmail(email)
         THEN /\ resp' = [r EXCEPT !.status = 400, !.msg = "Valid Gmail address required"]
              /\ UNCHANGED <<apiKeys, rnd>>
       ELSE /\ apiKeys' = { m \in apiKeys : m.hash # hashedKey }
                             \cup { [hash |-> hashedKey, email |-> email.s] }
            /\ rnd' = rnd + 1
            /\ resp' = [r EXCEPT !.status = 200, !.msg = "Key generated", !.issued = plainKey]
  /\ UNCHANGED <<now, api_keys, users, organizations, api_logs, ticks, last, rate_limits, restarts, inflight, websocket, sse>>

----------------------------------------------------------------------------
(* Key listing *)

(* The userId getAuth(req) finds in the session: none (not logged in), the id
   of a user, or an id no row carries *)
SessionUserIds == { NoUser } \cup { u.id : u \in users } \cup { 99 }

(* SELECT api_key, email, expires, revoked, created_at: the columns of a row
   the listing returns *)
ListedColumns(k) ==
  [api_key |-> k.api_key, email |-> k.email, expires |-> k.expires,
   revoked |-> k.revoked, created_at |-> k.created_at]

(* ... FROM api_keys WHERE user_id = $1 *)
SelectKeysOfUser(userId) == { ListedColumns(k) : k \in { r \in api_keys : r.user_id = userId } }

(* ORDER BY created_at DESC: the orders the store may return the rows in,
   rows of equal created_at in either order *)
OrderByCreatedAtDesc(rows) ==
  { q \in [1..Cardinality(rows) -> rows] :
      /\ \A i, j \in 1..Cardinality(rows) : i < j => q[i] # q[j]
      /\ \A i, j \in 1..Cardinality(rows) : i < j => q[i].created_at >= q[j].created_at }

(* api/user/keys.js and pages/api/user/keys.js: GET /api/user/keys *)
ListKeys ==
  /\ resp = NoResp
  /\ \E userId \in SessionUserIds :
       LET r == [Reply("list_keys", 0, "") EXCEPT !.owner = userId] IN
       IF userId = NoUser
         THEN resp' = [r EXCEPT !.status = 401, !.msg = "Unauthorized - Please log in."]
       ELSE \E method \in Methods :
         IF method # "GET"
           THEN resp' = [r EXCEPT !.status = 405, !.msg = "Method Not Allowed", !.next = TRUE]
         ELSE \E dbOk \in BOOLEAN :
           IF ~ dbOk
             THEN resp' = [r EXCEPT !.status = 500, !.msg = "Failed to fetch keys",
                                    !.next = TRUE, !.db = FALSE]
           ELSE \E q \in OrderByCreatedAtDesc(SelectKeysOfUser(userId)) :
             resp' = [r EXCEPT !.status = 200, !.msg = "keys", !.next = TRUE, !.keys = q]
  /\ UNCHANGED <<now, api_keys, users, organizations, api_logs, apiKeys, rnd, ticks, last,
                 rate_limits, restarts, inflight, websocket, sse>>

----------------------------------------------------------------------------
(* Revocation *)

(* The apiKey field of a revoke request body: undefined, or a token *)
RevokeInputs == { NoToken } \cup KnownTokens

(* api/revoke-key.js *)
RevokeKey ==
  /\ resp = NoResp
  /\ \E method \in Methods :
       IF method # "POST"
         THEN /\ resp' = Reply("revoke", 405, "Method not allowed")
              /\ UNCHANGED api_keys
       ELSE \E apiKey \in RevokeInputs :
         LET r == [Reply("revoke", 0, "") EXCEPT !.token = apiKey] IN
         IF apiKey = NoToken
           THEN /\ resp' = [r EXCEPT !.status = 400, !.msg = "API key required"]
                /\ UNCHANGED api_keys
         ELSE \E dbOk \in BOOLEAN :
           IF ~ dbOk
             THEN /\ resp' = [r EXCEPT !.status = 500, !.msg = "Database error", !.db = FALSE]
                  /\ UNCHANGED api_keys
           ELSE /\ api_keys' = RevokedByToken(apiKey)
                /\ resp' = [r EXCEPT !.status = 200, !.msg = "Key revoked"]
  /\ UNCHANGED <<now, users, organizations, api_logs, apiKeys, rnd, ticks, last, rate_limits, restarts, inflight, websocket, sse>>

(* The revoke-key handler that looks at rowCount *)
RevokeKeyChecked ==
  /\ resp = NoResp
  /\ \E method \in Methods :
       IF method # "POST"
         THEN /\ resp' = Reply("revoke_checked", 405, "Method not allowed")
              /\ UNCHANGED api_keys
       ELSE \E apiKey \in RevokeInputs :
         LET r == [Reply("revoke_checked", 0, "") EXCEPT !.token = apiKey] IN
         IF apiKey = NoToken
           THEN /\ resp' = [r EXCEPT !.status = 400, !.msg = "API key required in request body"]
                /\ UNCHANGED api_keys
         ELSE \E dbOk \in BOOLEAN :
           IF ~ dbOk
             THEN /\ resp' = [r EXCEPT !.status = 500, !.msg = "Database error", !.db = FALSE]
                  /\ UNCHANGED api_keys
           ELSE /\ api_keys' = RevokedByToken(apiKey)
                /\ resp' = IF RowCountByToken(apiKey) = 0
                             THEN [r EXCEPT !.status = 404, !.msg = "API key not found"]
                             ELSE [r EXCEPT !.status = 200, !.msg = "Key revoked successfully"]
  /\ UNCHANGED <<now, users, organizations, api_logs, apiKeys, rnd, ticks, last, rate_limits, restarts, inflight, websocket, sse>>

----------------------------------------------------------------------------
(* Key validation and the chat endpoint *)

(* What the inference provider does with the forwarded request *)
GroqOutcomes == {"ok", "notok", "throws"}

(* The authentication stage without the startsWith('Bearer ') test: the key
   is taken from whatever header carries it *)
LynxaAuthAnyHeader(scheme, token, dbOk) ==
  IF scheme = "absent"
    THEN [ok |-> FALSE, status |-> 401, msg |-> "NEXARIQ_API_KEY required", email |-> <<>>]
  ELSE IF ~ dbOk
    THEN [ok |-> FALSE, status |-> 500, msg |-> "Database error during authentication", email |-> <<>>]
  ELSE IF SelectUsableKey(token) = {}
    THEN [ok |-> FALSE, status |-> 401, msg |-> "Invalid, expired, or revoked NEXARIQ_API_KEY", email |-> <<>>]
  ELSE [ok |-> TRUE, status |-> 0, msg |-> "",
        email |-> (CHOOSE k \in SelectUsableKey(token) : TRUE).email]

(* api/lynxa.js lines 16-43: the authentication stage.  ok = the request goes
   on to the chat handler with userData = the row found *)
LynxaAuth(scheme, token, dbOk) ==
  IF scheme # "bearer"
    THEN [ok |-> FALSE, status |-> 401, msg |-> "NEXARIQ_API_KEY required", email |-> <<>>]
  ELSE IF ~ dbOk
    THEN [ok |-> FALSE, status |-> 500, msg |-> "Database error during authentication", email |-> <<>>]
  ELSE IF SelectUsableKey(token) = {}
    THEN [ok |-> FALSE, status |-> 401, msg |-> "Invalid, expired, or revoked NEXARIQ_API_KEY", email |-> <<>>]
  ELSE [ok |-> TRUE, status |-> 0, msg |-> "",
        email |-> (CHOOSE k \in SelectUsableKey(token) : TRUE).email]

(* The response of a request stopped at authentication: providedKey exists
   only once the header was accepted *)
Rejected(op, cred, auth, dbOk) ==
  [Reply(op, auth.status, auth.msg) EXCEPT
     !.scheme = cred.scheme,
     !.token = IF cred.scheme = "bearer" THEN cred.token ELSE NoToken,
     !.db = (cred.scheme # "bearer" \/ dbOk)]

(* The response under construction of a request that passed authentication *)
Admitted(op, cred, auth) ==
  [Reply(op, 0, "") EXCEPT !.scheme = cred.scheme, !.token = cred.token,
                           !.user = auth.email, !.next = TRUE]

(* The try/catch around the usage insert rethrowing: the failure reaches the
   outer catch, which answers 500 *)
ChatReplyUnguarded(r, logOk) ==
  IF logOk
    THEN [r EXCEPT !.status = 200, !.msg = "chat.completion", !.log = "ok"]
    ELSE [r EXCEPT !.status = 500, !.msg = "internal_error", !.log = "failed"]

(* api/lynxa.js lines 150-189: the non-streaming answer.  The usage insert
   sits in its own try/catch, which only writes the error to the console *)
ChatReply(r, logOk) ==
  [r EXCEPT !.status = 200, !.msg = "chat.completion",
            !.log = IF logOk THEN "ok" ELSE "failed"]

(* api/lynxa.js: POST /api/lynxa.  logCap bounds the rows of api_logs *)
Lynxa(logCap) ==
  /\ resp = NoResp
  /\ \E method \in Methods :
       IF method # "POST"
         THEN /\ resp' = Reply("lynxa", 405, "Method not allowed")
              /\ UNCHANGED api_logs
       ELSE \E cred \in Credentials, dbOk \in BOOLEAN :
         LET auth == LynxaAuth(cred.scheme, cred.token, dbOk)
             r == Admitted("lynxa", cred, auth)
         IN
         IF ~ auth.ok
           THEN /\ resp' = Rejected("lynxa", cred, auth, dbOk)
                /\ UNCHANGED api_logs
         ELSE \E noMessages \in BOOLEAN, groq \in GroqOutcomes, stream \in BOOLEAN, logOk \in BOOLEAN :
           IF noMessages
             THEN /\ resp' = [r EXCEPT !.status = 400, !.msg = "Messages array is required"]
                  /\ UNCHANGED api_logs
           ELSE IF groq = "throws"
             THEN /\ resp' = [r EXCEPT !.status = 500, !.msg = "internal_error"]
                  /\ UNCHANGED api_logs
           ELSE IF groq = "notok"
             THEN /\ resp' = [r EXCEPT !.status = 500, !.msg = "Failed to get response from Lynxa Pro"]
                  /\ UNCHANGED api_logs
           ELSE IF stream
             THEN /\ resp' = [r EXCEPT !.status = 200, !.msg = "text/event-stream"]
                  /\ UNCHANGED api_logs
           ELSE /\ IF logOk
                     THEN /\ Len(api_logs) < logCap
                          /\ api_logs' = Append(api_logs,
                               [user_email |-> auth.email, api_key |-> cred.token, created_at |-> now])
                     ELSE UNCHANGED api_logs
                /\ resp' = ChatReply(r, logOk)
  /\ UNCHANGED <<now, api_keys, users, organizations, apiKeys, rnd, ticks, last, rate_limits, restarts, inflight, websocket, sse>>

(* The JWT variant of the chat handler, lines 15-39: jwt.verify, then the
   store lookup, both inside one try whose catch answers 401 *)
LynxaJwtAuth(scheme, token, dbOk) ==
  IF scheme # "bearer"
    THEN [ok |-> FALSE, status |-> 401, msg |-> "API key required", email |-> <<>>]
  ELSE IF ~ JwtVerifyOk(token, JWT_SECRET, now) \/ ~ dbOk
    THEN [ok |-> FALSE, status |-> 401, msg |-> "Invalid or expired API key", email |-> <<>>]
  ELSE IF SelectUsableKey(token) = {}
    THEN [ok |-> FALSE, status |-> 401, msg |-> "Invalid, expired, or revoked API key", email |-> <<>>]
  ELSE [ok |-> TRUE, status |-> 0, msg |-> "",
        email |-> (CHOOSE k \in SelectUsableKey(token) : TRUE).email]

(* The JWT variant of POST /api/lynxa, for requests carrying one of creds *)
LynxaJwtWith(creds) ==
  /\ resp = NoResp
  /\ \E method \in Methods :
       IF method # "POST"
         THEN resp' = Reply("lynxa_jwt", 405, "Method not allowed")
       ELSE \E cred \in creds, dbOk \in BOOLEAN :
         LET auth == LynxaJwtAuth(cred.scheme, cred.token, dbOk)
             r == Admitted("lynxa_jwt", cred, auth)
             queried == JwtVerifyOk(cred.token, JWT_SECRET, now)
         IN
         IF ~ auth.ok
           THEN resp' = Rejected("lynxa_jwt", cred, auth, queried => dbOk)
         ELSE \E noMessage \in BOOLEAN, groq \in GroqOutcomes :
           resp' =
             IF noMessage THEN [r EXCEPT !.status = 400, !.msg = "Message is required"]
             ELSE IF groq = "throws" THEN [r EXCEPT !.status = 500, !.msg = "Internal server error"]
             ELSE IF groq = "notok" THEN [r EXCEPT !.status = 500, !.msg = "upstream error"]
             ELSE [r EXCEPT !.status = 200, !.msg = "success"]
  /\ UNCHANGED <<now, api_keys, users, organizations, api_logs, apiKeys, rnd, ticks, last, rate_limits, restarts, inflight, websocket, sse>>

(* The JWT variant of POST /api/lynxa *)
LynxaJwt == LynxaJwtWith(Credentials)

(* apiKeys.get(providedHash) of the Express server variant *)
MemLookup(token) == { m \in apiKeys : m.hash = HmacHex(API_KEY_SECRET, token) }

(* The middleware without the `if (!keyData)` test: any bearer token passes *)
ApiKeyAuthAny(scheme, token) ==
  IF scheme # "bearer"
    THEN [ok |-> FALSE, status |-> 401, msg |-> "API key required", email |-> <<>>]
  ELSE [ok |-> TRUE, status |-> 0, msg |-> "", email |-> <<>>]

(* apiKeyAuth, the authentication middleware of the Express server variant *)
ApiKeyAuth(scheme, token) ==
  IF scheme # "bearer"
    THEN [ok |-> FALSE, status |-> 401, msg |-> "API key required", email |-> <<>>]
  ELSE IF MemLookup(token) = {}
    THEN [ok |-> FALSE, status |-> 401, msg |-> "Invalid API key", email |-> <<>>]
  ELSE [ok |-> TRUE, status |-> 0, msg |-> "",
        email |-> (CHOOSE m \in MemLookup(token) : TRUE).email]

(* The status the provider answered with when its response is not ok *)
UpstreamErrorStatuses == {401, 500}

(* Express server variant: app.post('/api/lynxa', apiKeyAuth, ...) *)
LynxaMem ==
  /\ resp = NoResp
  /\ \E cred \in Credentials :
       LET auth == ApiKeyAuth(cred.scheme, cred.token)
           r == Admitted("lynxa_mem", cred, auth)
       IN
       IF ~ auth.ok
         THEN resp' = Rejected("lynxa_mem", cred, auth, TRUE)
       ELSE \E noMessage \in BOOLEAN, groq \in GroqOutcomes, upstream \in UpstreamErrorStatuses :
         resp' =
           IF noMessage THEN [r EXCEPT !.status = 400, !.msg = "Message is required"]
           ELSE IF groq = "throws" THEN [r EXCEPT !.status = 500, !.msg = "Internal server error"]
           ELSE IF groq = "notok" THEN [r EXCEPT !.status = upstream, !.msg = "upstream error"]
           ELSE [r EXCEPT !.status = 200, !.msg = "success"]
  /\ UNCHANGED <<now, api_keys, users, organizations, api_logs, apiKeys, rnd, ticks, last, rate_limits, restarts, inflight, websocket, sse>>

----------------------------------------------------------------------------
(* /api/users *)

Roles == {"user", "org_admin", "admin", "super_admin"}
OrgIds == 1..MaxOrgs
UnknownUserId == 99

(* api/users.js lines 17-46: the API key comes from X-API-Key, or from
   Authorization with the first 'Bearer ' removed; failAt = 1 is a store
   failure in getNile() or in the validation query *)
UsersAuth(scheme, token, failAt) ==
  IF failAt = 1
    THEN [ok |-> FALSE, status |-> 500, msg |-> "Internal server error", rows |-> {}]
  ELSE IF scheme = "absent"
    THEN [ok |-> FALSE, status |-> 401, msg |-> "MISSING_API_KEY", rows |-> {}]
  ELSE IF SelectKeyWithUser(token) = {}
    THEN [ok |-> FALSE, status |-> 401, msg |-> "INVALID_API_KEY", rows |-> {}]
  ELSE [ok |-> TRUE, status |-> 0, msg |-> "", rows |-> SelectKeyWithUser(token)]

(* The response of a /api/users or /api/billing request stopped at authentication *)
UsersRejected(op, cred, auth) ==
  [Reply(op, auth.status, auth.msg) EXCEPT
     !.scheme = cred.scheme, !.token = cred.token, !.db = (auth.status # 500)]

(* The response under construction once userData is known *)
UsersAdmitted(op, cred, userData) ==
  [Reply(op, 0, "") EXCEPT !.scheme = cred.scheme, !.token = cred.token,
                           !.user = userData.email, !.next = TRUE]

(* /^[^\s@]+@[^\s@]+\.[^\s@]+$/ on a string without white space: one "@",
   something before it, and after it a "." with something on both sides *)
EmailRegexTest(s) ==
  /\ Cardinality({ i \in 1..Len(s) : s[i] = "@" }) = 1
  /\ \E a \in 2..Len(s) :
       /\ s[a] = "@"
       /\ \E d \in (a + 2)..(Len(s) - 1) : s[d] = "."

(* LOWER(email), letter by letter *)
LowerChar(c) ==
  CASE c = "A" -> "a"
    [] c = "N" -> "n"
    [] c = "R" -> "r"
    [] OTHER -> c

Lower(s) == [i \in 1..Len(s) |-> LowerChar(s[i])]

(* SELECT id FROM users WHERE LOWER(email) = LOWER($1) *)
ExistingByEmail(email) == { u \in users : Lower(u.email) = Lower(email) }

(* SELECT id FROM users WHERE id = $1 AND organization_id = $2 *)
userBelongsToOrganization(userId, organizationId) ==
  \E u \in users : u.id = userId /\ u.organization_id = organizationId

(* users.organization_id REFERENCES organizations(id) *)
OrgForeignKeyOk(orgId) == orgId = NoOrg \/ \E o \in organizations : o.id = orgId

Passwords == {"missing", "short", "long-enough"}
CreateEmails == { JUndefined, JString(NEW_EMAIL), JString(ROOT_EMAIL), JString(GMAIL_NO_AT), JNumber(123) }

(* 0 = no query fails; n = the n-th query of the handler fails *)
FailPoints == 0..5

(* handleCreateUser behind the /api/users handler.  The queries after
   validation are numbered 2 (existing e-mail), 3 (INSERT users),
   4 (INSERT api_keys), 5 (INSERT audit_logs) *)
UsersCreate(roleInputs, orgInputs) ==
  /\ resp = NoResp
  /\ Cardinality(users) < MaxUsers
  /\ Cardinality(api_keys) < MaxKeys
  /\ \E cred \in Credentials, authFailAt \in {0, 1} :
       LET auth == UsersAuth(cred.scheme, cred.token, authFailAt)
           userData == CHOOSE u \in auth.rows : TRUE
           r == UsersAdmitted("users_create", cred, userData)
           failed == [r EXCEPT !.status = 500, !.msg = "CREATE_ERROR", !.db = FALSE]
       IN
       IF ~ auth.ok
         THEN /\ resp' = UsersRejected("users_create", cred, auth)
              /\ UNCHANGED <<users, api_keys, rnd>>
       ELSE IF userData.role \notin {"admin", "super_admin", "org_admin"}
         THEN /\ resp' = [r EXCEPT !.status = 403, !.msg = "INSUFFICIENT_PERMISSIONS"]
              /\ UNCHANGED <<users, api_keys, rnd>>
       ELSE \E email \in CreateEmails, password \in Passwords :
         IF ~ Truthy(email) \/ password = "missing"
           THEN /\ resp' = [r EXCEPT !.status = 400, !.msg = "MISSING_REQUIRED_FIELDS", !.input = email]
                /\ UNCHANGED <<users, api_keys, rnd>>
         ELSE IF email.t # "string" \/ ~ EmailRegexTest(email.s)
           THEN /\ resp' = [r EXCEPT !.status = 400, !.msg = "INVALID_EMAIL", !.input = email]
                /\ UNCHANGED <<users, api_keys, rnd>>
         ELSE IF password = "short"
           THEN /\ resp' = [r EXCEPT !.status = 400, !.msg = "WEAK_PASSWORD", !.input = email]
                /\ UNCHANGED <<users, api_keys, rnd>>
         ELSE \E failAt \in FailPoints \ {1} :
         IF failAt = 2
           THEN /\ resp' = [failed EXCEPT !.input = email]
                /\ UNCHANGED <<users, api_keys, rnd>>
         ELSE IF ExistingByEmail(email.s) # {}
           THEN /\ resp' = [r EXCEPT !.status = 409, !.msg = "EMAIL_EXISTS", !.input = email]
                /\ UNCHANGED <<users, api_keys, rnd>>
         ELSE \E role \in roleInputs, organization_id \in orgInputs :
           LET targetOrgId ==
                 IF organization_id # NoOrg THEN organization_id
                 ELSE IF userData.role = "super_admin" THEN NoOrg
                 ELSE userData.organization_id
               newId == Cardinality(users) + 1
               newUser == [id |-> newId, email |-> email.s, role |-> role,
                           organization_id |-> targetOrgId, is_active |-> TRUE]
               apiKey == LynxToken(rnd + 1, now)
               newKey == KeyRow(apiKey, <<>>, newId, now + YearMs, now)
           IN
           IF targetOrgId # NoOrg /\ userData.role # "super_admin"
                /\ userData.organization_id # targetOrgId
             THEN /\ resp' = [r EXCEPT !.status = 403, !.msg = "ORG_ACCESS_DENIED", !.input = email]
                  /\ UNCHANGED <<users, api_keys, rnd>>
           ELSE IF failAt = 3 \/ ~ OrgForeignKeyOk(targetOrgId)
             THEN /\ resp' = [failed EXCEPT !.input = email]
                  /\ UNCHANGED <<users, api_keys, rnd>>
           ELSE IF failAt = 4
             THEN /\ users' = users \cup { newUser }
                  /\ rnd' = rnd + 1
                  /\ resp' = [failed EXCEPT !.input = email]
                  /\ UNCHANGED api_keys
           ELSE /\ users' = users \cup { newUser }
                /\ api_keys' = api_keys \cup { newKey }
                /\ rnd' = rnd + 1
                /\ resp' = IF failAt = 5
                             THEN [failed EXCEPT !.input = email]
                             ELSE [r EXCEPT !.status = 201, !.msg = "User created successfully",
                                            !.input = email, !.issued = apiKey]
  /\ UNCHANGED <<now, organizations, api_logs, apiKeys, ticks, last, rate_limits, restarts, inflight, websocket, sse>>

(* An optional body field that is left out *)
Absent == "absent"

UserIdInputs == {NoUser, 1, 2, UnknownUserId}

(* handleUpdateUser behind the /api/users handler.  Queries: 2 (SELECT the
   user), 3 (UPDATE users), 4 (INSERT audit_logs).  profile = one of
   first_name, last_name, preferences is present in the body *)
UsersUpdate(roleInputs, orgInputs) ==
  /\ resp = NoResp
  /\ \E cred \in Credentials, authFailAt \in {0, 1} :
       LET auth == UsersAuth(cred.scheme, cred.token, authFailAt)
           userData == CHOOSE u \in auth.rows : TRUE
           r == UsersAdmitted("users_update", cred, userData)
           failed == [r EXCEPT !.status = 500, !.msg = "UPDATE_ERROR", !.db = FALSE]
       IN
       IF ~ auth.ok
         THEN /\ resp' = UsersRejected("users_update", cred, auth)
              /\ UNCHANGED users
       ELSE \E user_id \in UserIdInputs :
         LET canUpdate ==
               \/ user_id = userData.id
               \/ userData.role = "admin"
               \/ userData.role = "super_admin"
               \/ (userData.role = "org_admin"
                     /\ userBelongsToOrganization(user_id, userData.organization_id))
             self == user_id = userData.id
         IN
         IF user_id = NoUser
           THEN /\ resp' = [r EXCEPT !.status = 400, !.msg = "MISSING_USER_ID"]
                /\ UNCHANGED users
         ELSE IF ~ canUpdate
           THEN /\ resp' = [r EXCEPT !.status = 403, !.msg = "UPDATE_DENIED"]
                /\ UNCHANGED users
         ELSE \E failAt \in FailPoints \ {1, 5} :
         IF failAt = 2
           THEN /\ resp' = failed
                /\ UNCHANGED users
         ELSE IF ~ \E u \in users : u.id = user_id
           THEN /\ resp' = [r EXCEPT !.status = 404, !.msg = "USER_NOT_FOUND"]
                /\ UNCHANGED users
         ELSE \E role \in {Absent} \cup roleInputs, organization_id \in orgInputs,
                 is_active \in {Absent, "true", "false"}, profile \in BOOLEAN :
           LET setRole == ~ self /\ role # Absent /\ userData.role \in {"admin", "super_admin"}
               setOrg == ~ self /\ organization_id # NoOrg /\ userData.role = "super_admin"
               setActive == ~ self /\ is_active # Absent /\ userData.role \in {"admin", "super_admin"}
               updatedUser(u) ==
                 [u EXCEPT !.role = IF setRole THEN role ELSE @,
                           !.organization_id = IF setOrg THEN organization_id ELSE @,
                           !.is_active = IF setActive THEN is_active = "true" ELSE @]
           IN
           IF ~ (profile \/ setRole \/ setOrg \/ setActive)
             THEN /\ resp' = [r EXCEPT !.status = 400, !.msg = "NO_UPDATES"]
                  /\ UNCHANGED users
           ELSE IF failAt = 3 \/ (setOrg /\ ~ OrgForeignKeyOk(organization_id))
             THEN /\ resp' = failed
                  /\ UNCHANGED users
           ELSE /\ users' = { IF u.id = user_id THEN updatedUser(u) ELSE u : u \in users }
                /\ resp' = IF failAt = 4
                             THEN failed
                             ELSE [r EXCEPT !.status = 200, !.msg = "User updated successfully"]
  /\ UNCHANGED <<now, api_keys, organizations, api_logs, apiKeys, rnd, ticks, last, rate_limits, restarts, inflight, websocket, sse>>

(* handleDeleteUser behind the /api/users handler.  Queries: 2 (SELECT the
   user), 3 (UPDATE users), 4 (UPDATE api_keys), 5 (INSERT audit_logs) *)
UsersDelete ==
  /\ resp = NoResp
  /\ \E cred \in Credentials, authFailAt \in {0, 1} :
       LET auth == UsersAuth(cred.scheme, cred.token, authFailAt)
           userData == CHOOSE u \in auth.rows : TRUE
           r == UsersAdmitted("users_delete", cred, userData)
           failed == [r EXCEPT !.status = 500, !.msg = "DELETE_ERROR", !.db = FALSE]
       IN
       IF ~ auth.ok
         THEN /\ resp' = UsersRejected("users_delete", cred, auth)
              /\ UNCHANGED <<users, api_keys>>
       ELSE \E user_id \in UserIdInputs :
         LET targetUser == CHOOSE u \in users : u.id = user_id
             deactivated ==
               { IF u.id = user_id THEN [u EXCEPT !.is_active = FALSE] ELSE u : u \in users }
         IN
         IF user_id = NoUser
           THEN /\ resp' = [r EXCEPT !.status = 400, !.msg = "MISSING_USER_ID"]
                /\ UNCHANGED <<users, api_keys>>
         ELSE IF userData.role \notin {"admin", "super_admin"}
           THEN /\ resp' = [r EXCEPT !.status = 403, !.msg = "DELETE_DENIED"]
                /\ UNCHANGED <<users, api_keys>>
         ELSE IF user_id = userData.id
           THEN /\ resp' = [r EXCEPT !.status = 409, !.msg = "SELF_DELETE_DENIED"]
                /\ UNCHANGED <<users, api_keys>>
         ELSE \E failAt \in FailPoints \ {1} :
         IF failAt = 2
           THEN /\ resp' = failed
                /\ UNCHANGED <<users, api_keys>>
         ELSE IF ~ \E u \in users : u.id = user_id
           THEN /\ resp' = [r EXCEPT !.status = 404, !.msg = "USER_NOT_FOUND"]
                /\ UNCHANGED <<users, api_keys>>
         ELSE IF userData.role = "admin" /\ targetUser.organization_id # userData.organization_id
           THEN /\ resp' = [r EXCEPT !.status = 403, !.msg = "ORG_DELETE_DENIED"]
                /\ UNCHANGED <<users, api_keys>>
         ELSE IF failAt = 3
           THEN /\ resp' = failed
                /\ UNCHANGED <<users, api_keys>>
         ELSE IF failAt = 4
           THEN /\ users' = deactivated
                /\ resp' = failed
                /\ UNCHANGED api_keys
         ELSE /\ users' = deactivated
              /\ api_keys' = RevokedByUser(user_id)
              /\ resp' = IF failAt = 5
                           THEN failed
                           ELSE [r EXCEPT !.status = 200, !.msg = "User deleted successfully"]
  /\ UNCHANGED <<now, organizations, api_logs, apiKeys, rnd, ticks, last, rate_limits, restarts, inflight, websocket, sse>>

(* `****-****-****-${key.api_key.slice(-8)}`: of the token only its last
   eight characters are left, the end of the signature of a JWT, the end of
   the timestamp of a lynx_ key *)
MaskedKey(token) ==
  [kind |-> "masked", sub |-> <<>>, iat |-> 0, exp |-> 0,
   sig |-> IF token.kind = "jwt" THEN token.sig ELSE "",
   rnd |-> IF token.kind = "lynx" THEN token.iat % 100000000 ELSE 0]

(* SELECT id, name, api_key, created_at, expires, last_used, revoked,
   rate_limit FROM api_keys WHERE user_id = $1, each api_key masked *)
MaskedKeysOfUser(userId) ==
  { [api_key |-> MaskedKey(k.api_key), email |-> k.email, expires |-> k.expires,
     revoked |-> k.revoked, created_at |-> k.created_at] :
      k \in { r \in api_keys : r.user_id = userId } }

(* The WHERE clause of the list form, by the caller's role, with the
   organization_id filter an admin or super_admin may add *)
VisibleUsers(userData, organization_id) ==
  { u \in users :
      /\ CASE userData.role = "super_admin" -> TRUE
            [] userData.role \in {"admin", "org_admin"} ->
                 userData.organization_id # NoOrg /\ u.organization_id = userData.organization_id
            [] OTHER -> u.id = userData.id
      /\ (organization_id # NoOrg /\ userData.role \in {"admin", "super_admin"})
            => u.organization_id = organization_id }

(* handleGetUsers behind the /api/users handler: the single-user form when
   user_id is given, the list form otherwise.  Query 2 is the first query of
   either form.  The role and search filters of the list form, which only
   narrow the result, and the usage statistics are left out *)
UsersGet ==
  /\ resp = NoResp
  /\ \E cred \in Credentials, authFailAt \in {0, 1} :
       LET auth == UsersAuth(cred.scheme, cred.token, authFailAt)
           userData == CHOOSE u \in auth.rows : TRUE
           r == UsersAdmitted("users_get", cred, userData)
           failed == [r EXCEPT !.status = 500, !.msg = "FETCH_ERROR", !.db = FALSE]
       IN
       IF ~ auth.ok
         THEN resp' = UsersRejected("users_get", cred, auth)
       ELSE \E user_id \in UserIdInputs, failAt \in {0, 2} :
         IF user_id # NoUser
           THEN LET canAccess ==
                      \/ user_id = userData.id
                      \/ userData.role = "admin"
                      \/ userData.role = "super_admin"
                      \/ (userData.role = "org_admin"
                            /\ userBelongsToOrganization(user_id, userData.organization_id))
                    mayIncludeKeys ==
                      user_id = userData.id \/ userData.role \in {"admin", "super_admin"}
                IN
                IF failAt = 2 /\ (userData.role = "org_admin" \/ canAccess)
                  THEN resp' = failed
                ELSE IF ~ canAccess
                  THEN resp' = [r EXCEPT !.status = 403, !.msg = "ACCESS_DENIED"]
                ELSE IF ~ \E u \in users : u.id = user_id
                  THEN resp' = [r EXCEPT !.status = 404, !.msg = "USER_NOT_FOUND"]
                ELSE \E include_keys \in BOOLEAN :
                  IF include_keys /\ mayIncludeKeys
                    THEN \E q \in OrderByCreatedAtDesc(MaskedKeysOfUser(user_id)) :
                      resp' = [r EXCEPT !.status = 200, !.msg = "user",
                                        !.users = { u \in users : u.id = user_id }, !.keys = q]
                    ELSE resp' = [r EXCEPT !.status = 200, !.msg = "user",
                                           !.users = { u \in users : u.id = user_id }]
         ELSE IF failAt = 2
           THEN resp' = failed
         ELSE \E organization_id \in {NoOrg} \cup OrgIds :
           resp' = [r EXCEPT !.status = 200, !.msg = "users",
                             !.users = VisibleUsers(userData, organization_id)]
  /\ UNCHANGED <<now, api_keys, users, organizations, api_logs, apiKeys, rnd, ticks, last,
                 rate_limits, restarts, inflight, websocket, sse>>

----------------------------------------------------------------------------
(* /api/billing: the Stripe webhook *)

(* organizations.plan CHECK (plan IN ('free', 'pro', 'enterprise', 'custom')) *)
AllowedPlans == {"free", "pro", "enterprise", "custom"}

(* SELECT name FROM plans WHERE id = $1, over the seeded plans *)
PlanIds == {"plan-free", "plan-pro", "plan-unknown"}
PlanName(plan_id) ==
  CASE plan_id = "plan-free" -> "Free"
    [] plan_id = "plan-pro" -> "Pro"
    [] OTHER -> "NULL"

WebhookEvents ==
  {"checkout.session.completed", "customer.subscription.deleted", "invoice.payment_succeeded"}

(* UPDATE organizations SET plan = $1 WHERE id = $2 *)
WithPlan(orgId, plan) ==
  { IF o.id = orgId THEN [o EXCEPT !.plan = plan] ELSE o : o \in organizations }

(* handleCheckoutCompleted: INSERT INTO subscriptions (query 2), then the
   UPDATE of the plan (query 3); any failure is caught and logged *)
CheckoutCompleted(orgId, plan_id, failAt) ==
  LET inserted == /\ failAt # 2
                  /\ \E o \in organizations : o.id = orgId
                  /\ PlanName(plan_id) # "NULL"
      updated == inserted /\ failAt # 3 /\ PlanName(plan_id) \in AllowedPlans
  IN IF updated THEN WithPlan(orgId, PlanName(plan_id)) ELSE organizations

(* handleSubscriptionCanceled: UPDATE subscriptions (query 2), then the
   organization goes back to the free plan (query 3) *)
SubscriptionCanceled(orgId, failAt) ==
  IF failAt \in {2, 3} \/ orgId = NoOrg THEN organizations ELSE WithPlan(orgId, "free")

(* POST /api/billing?action=webhook: key validation as in /api/users, then
   handleStripeWebhook *)
BillingWebhook ==
  /\ resp = NoResp
  /\ \E cred \in Credentials, authFailAt \in {0, 1} :
       LET auth == UsersAuth(cred.scheme, cred.token, authFailAt)
           userData == CHOOSE u \in auth.rows : TRUE
           r == UsersAdmitted("billing_webhook", cred, userData)
       IN
       IF ~ auth.ok
         THEN /\ resp' = UsersRejected("billing_webhook", cred, auth)
              /\ UNCHANGED organizations
       ELSE \E sigOk \in BOOLEAN :
         IF ~ sigOk
           THEN /\ resp' = [r EXCEPT !.status = 400, !.msg = "Webhook Error"]
                /\ UNCHANGED organizations
         ELSE \E event \in WebhookEvents :
           /\ resp' = [r EXCEPT !.status = 200, !.msg = "received"]
           /\ CASE event = "checkout.session.completed" ->
                     \E orgId \in {NoOrg} \cup OrgIds, plan_id \in PlanIds, failAt \in {0, 2, 3} :
                       organizations' = CheckoutCompleted(orgId, plan_id, failAt)
                  [] event = "customer.subscription.deleted" ->
                     \E orgId \in {NoOrg} \cup OrgIds, failAt \in {0, 2, 3} :
                       organizations' = SubscriptionCanceled(orgId, failAt)
                  [] OTHER -> UNCHANGED organizations
  /\ UNCHANGED <<now, api_keys, users, api_logs, apiKeys, rnd, ticks, last, rate_limits, restarts, inflight, websocket, sse>>

----------------------------------------------------------------------------
(* /api/organizations *)

(* The name field of the body: missing, the name of the seeded organization
   in other letter case, or a new name *)
OrgNames == {"", "DEFAULT", "acme"}

(* LOWER(name), on the names of the model *)
LowerName(name) == IF name = "DEFAULT" THEN "default" ELSE name

(* The plan field of the body; Absent takes the default of the handler *)
PlanInputs == {Absent, "pro"}

(* uuid_generate_v4() for organizations.id: an id no row has *)
NewOrgId == CHOOSE i \in OrgIds : ~ \E o \in organizations : o.id = i

(* handleCreateOrganization behind the /api/organizations handler, whose key
   validation is that of /api/users.  Queries: 2 (SELECT by name), 3 (INSERT
   organizations), 4 (INSERT audit_logs) *)
OrgsCreate ==
  /\ resp = NoResp
  /\ Cardinality(organizations) < MaxOrgs
  /\ \E cred \in Credentials, authFailAt \in {0, 1} :
       LET auth == UsersAuth(cred.scheme, cred.token, authFailAt)
           userData == CHOOSE u \in auth.rows : TRUE
           r == UsersAdmitted("orgs_create", cred, userData)
           failed == [r EXCEPT !.status = 500, !.msg = "CREATE_ERROR", !.db = FALSE]
       IN
       IF ~ auth.ok
         THEN /\ resp' = UsersRejected("orgs_create", cred, auth)
              /\ UNCHANGED organizations
       ELSE IF userData.role \notin {"admin", "super_admin"}
         THEN /\ resp' = [r EXCEPT !.status = 403, !.msg = "INSUFFICIENT_PERMISSIONS"]
              /\ UNCHANGED organizations
       ELSE \E name \in OrgNames :
         IF name = ""
           THEN /\ resp' = [r EXCEPT !.status = 400, !.msg = "MISSING_NAME"]
                /\ UNCHANGED organizations
         ELSE \E failAt \in {0, 2, 3, 4} :
         IF failAt = 2
           THEN /\ resp' = failed
                /\ UNCHANGED organizations
         ELSE IF \E o \in organizations : LowerName(o.name) = LowerName(name)
           THEN /\ resp' = [r EXCEPT !.status = 409, !.msg = "NAME_EXISTS"]
                /\ UNCHANGED organizations
         ELSE IF failAt = 3
           THEN /\ resp' = failed
                /\ UNCHANGED organizations
         ELSE \E plan \in PlanInputs :
           /\ organizations' = organizations \cup
                 { [id |-> NewOrgId, name |-> name,
                    plan |-> IF plan = Absent THEN "free" ELSE plan] }
           /\ resp' = IF failAt = 4
                        THEN failed
                        ELSE [r EXCEPT !.status = 201, !.msg = "Organization created successfully"]
  /\ UNCHANGED <<now, api_keys, users, api_logs, apiKeys, rnd, ticks, last, rate_limits,
                 restarts, inflight, websocket, sse>>

(* The plan field of an update: absent, a plan of the CHECK constraint, or
   one outside it *)
PlanUpdates == {Absent, "pro", "platinum"}

(* handleUpdateOrganization.  Queries: 2 (SELECT the organization),
   3 (UPDATE organizations), 4 (INSERT audit_logs).  other = description or
   settings is present in the body.  organizations.name is UNIQUE and plan
   has a CHECK constraint: an UPDATE breaking either fails *)
OrgsUpdate ==
  /\ resp = NoResp
  /\ \E cred \in Credentials, authFailAt \in {0, 1} :
       LET auth == UsersAuth(cred.scheme, cred.token, authFailAt)
           userData == CHOOSE u \in auth.rows : TRUE
           r == UsersAdmitted("orgs_update", cred, userData)
           failed == [r EXCEPT !.status = 500, !.msg = "UPDATE_ERROR", !.db = FALSE]
       IN
       IF ~ auth.ok
         THEN /\ resp' = UsersRejected("orgs_update", cred, auth)
              /\ UNCHANGED organizations
       ELSE \E org_id \in {NoOrg} \cup OrgIds :
         IF org_id = NoOrg
           THEN /\ resp' = [r EXCEPT !.status = 400, !.msg = "MISSING_ORG_ID"]
                /\ UNCHANGED organizations
         ELSE \E failAt \in {0, 2, 3, 4} :
         IF failAt = 2
           THEN /\ resp' = failed
                /\ UNCHANGED organizations
         ELSE IF ~ \E o \in organizations : o.id = org_id
           THEN /\ resp' = [r EXCEPT !.status = 404, !.msg = "ORG_NOT_FOUND"]
                /\ UNCHANGED organizations
         ELSE IF userData.organization_id # org_id /\ userData.role \notin {"admin", "super_admin"}
           THEN /\ resp' = [r EXCEPT !.status = 403, !.msg = "INSUFFICIENT_PERMISSIONS"]
                /\ UNCHANGED organizations
         ELSE \E name \in OrgNames, plan \in PlanUpdates, other \in BOOLEAN :
           LET updated(o) == [o EXCEPT !.name = IF name # "" THEN name ELSE @,
                                       !.plan = IF plan # Absent THEN plan ELSE @]
               nameTaken == name # "" /\ \E o \in organizations : o.id # org_id /\ o.name = name
           IN
           IF name = "" /\ plan = Absent /\ ~ other
             THEN /\ resp' = [r EXCEPT !.status = 400, !.msg = "NO_UPDATES"]
                  /\ UNCHANGED organizations
           ELSE IF failAt = 3 \/ nameTaken \/ (plan # Absent /\ plan \notin AllowedPlans)
             THEN /\ resp' = failed
                  /\ UNCHANGED organizations
           ELSE /\ organizations' =
                     { IF o.id = org_id THEN updated(o) ELSE o : o \in organizations }
                /\ resp' = IF failAt = 4
                             THEN failed
                             ELSE [r EXCEPT !.status = 200, !.msg = "Organization updated successfully"]
  /\ UNCHANGED <<now, api_keys, users, api_logs, apiKeys, rnd, ticks, last, rate_limits,
                 restarts, inflight, websocket, sse>>

----------------------------------------------------------------------------
(* Requests served concurrently.  A handler runs until its next await of a
   query; the queries of different requests interleave, each one atomic in
   the store and none inside a transaction *)

MaxInflight == 2
ReqIds == 1..MaxInflight

UPPER_EMAIL == <<"N", "@", "x", ".", "i", "o">>
RaceEmails == { JString(NEW_EMAIL), JString(UPPER_EMAIL) }
RaceOrgs == {NoOrg, 2}

(* A slot without a request.  pc is the query the handler awaits next;
   callerRole and callerOrg are userData; email, role, org the fields of the
   request; created the id the INSERT INTO users returned *)
Idle ==
  [op |-> "none", pc |-> "idle", callerRole |-> "", callerOrg |-> NoOrg, email |-> <<>>,
   role |-> "", org |-> NoOrg, status |-> 0, msg |-> "", created |-> NoUser]

(* return res.status(status).json({code: msg}) *)
Answered(q, status, msg) == [q EXCEPT !.pc = "done", !.status = status, !.msg = msg]

(* The response has left *)
Finish(i) ==
  /\ inflight[i].pc = "done"
  /\ inflight' = [inflight EXCEPT ![i] = Idle]
  /\ UNCHANGED <<now, api_keys, users, organizations, api_logs, apiKeys, rnd, ticks, resp,
                 last, rate_limits, restarts, websocket, sse>>

(* POST /api/users up to its first query inside handleCreateUser: the
   validation query of the handler, the role test and the field validation *)
CreateUserReceive(i) ==
  /\ inflight[i] = Idle
  /\ \E cred \in Credentials, authFailAt \in {0, 1} :
       LET auth == UsersAuth(cred.scheme, cred.token, authFailAt)
           userData == CHOOSE u \in auth.rows : TRUE
           q == [Idle EXCEPT !.op = "users_create"]
       IN
       IF ~ auth.ok
         THEN inflight' = [inflight EXCEPT ![i] = Answered(q, auth.status, auth.msg)]
       ELSE IF userData.role \notin {"admin", "super_admin", "org_admin"}
         THEN inflight' = [inflight EXCEPT ![i] = Answered(q, 403, "INSUFFICIENT_PERMISSIONS")]
       ELSE \E email \in RaceEmails, password \in Passwords, role \in {"user"},
               organization_id \in RaceOrgs :
         IF ~ Truthy(email) \/ password = "missing"
           THEN inflight' = [inflight EXCEPT ![i] = Answered(q, 400, "MISSING_REQUIRED_FIELDS")]
         ELSE IF email.t # "string" \/ ~ EmailRegexTest(email.s)
           THEN inflight' = [inflight EXCEPT ![i] = Answered(q, 400, "INVALID_EMAIL")]
         ELSE IF password = "short"
           THEN inflight' = [inflight EXCEPT ![i] = Answered(q, 400, "WEAK_PASSWORD")]
         ELSE inflight' = [inflight EXCEPT ![i] =
                [q EXCEPT !.pc = "select_email", !.callerRole = userData.role,
                          !.callerOrg = userData.organization_id, !.email = email.s,
                          !.role = role, !.org = organization_id]]
  /\ UNCHANGED <<now, api_keys, users, organizations, api_logs, apiKeys, rnd, ticks, resp,
                 last, rate_limits, restarts, websocket, sse>>

(* SELECT id FROM users WHERE LOWER(email) = LOWER($1), then the choice of
   targetOrgId and the organization access test *)
CreateUserSelectEmail(i) ==
  LET q == inflight[i]
      targetOrgId ==
        IF q.org # NoOrg THEN q.org
        ELSE IF q.callerRole = "super_admin" THEN NoOrg
        ELSE q.callerOrg
  IN
  /\ q.op = "users_create" /\ q.pc = "select_email"
  /\ \E fail \in BOOLEAN :
       inflight' = [inflight EXCEPT ![i] =
         IF fail THEN Answered(q, 500, "CREATE_ERROR")
         ELSE IF ExistingByEmail(q.email) # {} THEN Answered(q, 409, "EMAIL_EXISTS")
         ELSE IF targetOrgId # NoOrg /\ q.callerRole # "super_admin" /\ q.callerOrg # targetOrgId
           THEN Answered(q, 403, "ORG_ACCESS_DENIED")
         ELSE [q EXCEPT !.pc = "insert_user", !.org = targetOrgId]]
  /\ UNCHANGED <<now, api_keys, users, organizations, api_logs, apiKeys, rnd, ticks, resp,
                 last, rate_limits, restarts, websocket, sse>>

(* users.email is UNIQUE: the constraint compares the stored strings *)
EmailUniqueOk(email) == ~ \E u \in users : u.email = email

(* bcrypt.hash, then INSERT INTO users ... RETURNING id; the constraints of
   the table are users.email UNIQUE and the foreign key of organization_id *)
CreateUserInsertUser(i) ==
  LET q == inflight[i]
      newId == Cardinality(users) + 1
      newUser == [id |-> newId, email |-> q.email, role |-> q.role,
                  organization_id |-> q.org, is_active |-> TRUE]
  IN
  /\ q.op = "users_create" /\ q.pc = "insert_user"
  /\ \E fail \in BOOLEAN :
       IF fail \/ ~ EmailUniqueOk(q.email) \/ ~ OrgForeignKeyOk(q.org)
         THEN /\ inflight' = [inflight EXCEPT ![i] = Answered(q, 500, "CREATE_ERROR")]
              /\ UNCHANGED users
       ELSE /\ users' = users \cup { newUser }
            /\ inflight' = [inflight EXCEPT ![i] = [q EXCEPT !.pc = "insert_key", !.created = newId]]
  /\ UNCHANGED <<now, api_keys, organizations, api_logs, apiKeys, rnd, ticks, resp, last,
                 rate_limits, restarts, websocket, sse>>

(* INSERT INTO api_keys: the initial key of the new user *)
CreateUserInsertKey(i) ==
  LET q == inflight[i]
      apiKey == LynxToken(rnd + 1, now)
  IN
  /\ q.op = "users_create" /\ q.pc = "insert_key"
  /\ rnd' = rnd + 1
  /\ \E fail \in BOOLEAN :
       IF fail
         THEN /\ inflight' = [inflight EXCEPT ![i] = Answered(q, 500, "CREATE_ERROR")]
              /\ UNCHANGED api_keys
       ELSE /\ api_keys' = api_keys \cup { KeyRow(apiKey, <<>>, q.created, now + YearMs, now) }
            /\ inflight' = [inflight EXCEPT ![i] = [q EXCEPT !.pc = "insert_audit"]]
  /\ UNCHANGED <<now, users, organizations, api_logs, apiKeys, ticks, resp, last, rate_limits,
                 restarts, websocket, sse>>

(* INSERT INTO audit_logs, then the 201 *)
CreateUserAudit(i) ==
  LET q == inflight[i] IN
  /\ q.op = "users_create" /\ q.pc = "insert_audit"
  /\ \E fail \in BOOLEAN :
       inflight' = [inflight EXCEPT ![i] =
         IF fail THEN Answered(q, 500, "CREATE_ERROR")
         ELSE Answered(q, 201, "User created successfully")]
  /\ UNCHANGED <<now, api_keys, users, organizations, api_logs, apiKeys, rnd, ticks, resp,
                 last, rate_limits, restarts, websocket, sse>>

(* DELETE /api/organizations up to its first query inside
   handleDeleteOrganization *)
DeleteOrgReceive(i) ==
  /\ inflight[i] = Idle
  /\ \E cred \in Credentials, authFailAt \in {0, 1} :
       LET auth == UsersAuth(cred.scheme, cred.token, authFailAt)
           userData == CHOOSE u \in auth.rows : TRUE
           q == [Idle EXCEPT !.op = "orgs_delete"]
       IN
       IF ~ auth.ok
         THEN inflight' = [inflight EXCEPT ![i] = Answered(q, auth.status, auth.msg)]
       ELSE \E org_id \in {NoOrg} \cup OrgIds :
         inflight' = [inflight EXCEPT ![i] =
           IF org_id = NoOrg THEN Answered(q, 400, "MISSING_ORG_ID")
           ELSE IF userData.role # "super_admin" THEN Answered(q, 403, "INSUFFICIENT_PERMISSIONS")
           ELSE [q EXCEPT !.pc = "select_org", !.callerRole = userData.role,
                          !.callerOrg = userData.organization_id, !.org = org_id]]
  /\ UNCHANGED <<now, api_keys, users, organizations, api_logs, apiKeys, rnd, ticks, resp,
                 last, rate_limits, restarts, websocket, sse>>

(* SELECT * FROM organizations WHERE id = $1 *)
DeleteOrgSelect(i) ==
  LET q == inflight[i] IN
  /\ q.op = "orgs_delete" /\ q.pc = "select_org"
  /\ \E fail \in BOOLEAN :
       inflight' = [inflight EXCEPT ![i] =
         IF fail THEN Answered(q, 500, "DELETE_ERROR")
         ELSE IF ~ \E o \in organizations : o.id = q.org THEN Answered(q, 404, "ORG_NOT_FOUND")
         ELSE [q EXCEPT !.pc = "count_members"]]
  /\ UNCHANGED <<now, api_keys, users, organizations, api_logs, apiKeys, rnd, ticks, resp,
                 last, rate_limits, restarts, websocket, sse>>

(* SELECT COUNT( * ) as member_count FROM users WHERE organization_id = $1 *)
MemberCount(org_id) == Cardinality({ u \in users : u.organization_id = org_id })

DeleteOrgCount(i) ==
  LET q == inflight[i] IN
  /\ q.op = "orgs_delete" /\ q.pc = "count_members"
  /\ \E fail \in BOOLEAN :
       inflight' = [inflight EXCEPT ![i] =
         IF fail THEN Answered(q, 500, "DELETE_ERROR")
         ELSE IF MemberCount(q.org) > 0 THEN Answered(q, 409, "HAS_MEMBERS")
         ELSE [q EXCEPT !.pc = "delete_org"]]
  /\ UNCHANGED <<now, api_keys, users, organizations, api_logs, apiKeys, rnd, ticks, resp,
                 last, rate_limits, restarts, websocket, sse>>

(* The users table had the foreign key no referential action *)
MembersKept(org_id) == users

(* users.organization_id REFERENCES organizations(id) ON DELETE SET NULL *)
MembersSetNull(org_id) ==
  { IF u.organization_id = org_id THEN [u EXCEPT !.organization_id = NoOrg] ELSE u : u \in users }

(* DELETE FROM organizations WHERE id = $1 *)
DeleteOrgDelete(i) ==
  LET q == inflight[i] IN
  /\ q.op = "orgs_delete" /\ q.pc = "delete_org"
  /\ \E fail \in BOOLEAN :
       IF fail
         THEN /\ inflight' = [inflight EXCEPT ![i] = Answered(q, 500, "DELETE_ERROR")]
              /\ UNCHANGED <<organizations, users>>
       ELSE /\ organizations' = { o \in organizations : o.id # q.org }
            /\ users' = MembersSetNull(q.org)
            /\ inflight' = [inflight EXCEPT ![i] = [q EXCEPT !.pc = "insert_audit"]]
  /\ UNCHANGED <<now, api_keys, api_logs, apiKeys, rnd, ticks, resp, last, rate_limits,
                 restarts, websocket, sse>>

(* INSERT INTO audit_logs, then the 200 *)
DeleteOrgAudit(i) ==
  LET q == inflight[i] IN
  /\ q.op = "orgs_delete" /\ q.pc = "insert_audit"
  /\ \E fail \in BOOLEAN :
       inflight' = [inflight EXCEPT ![i] =
         IF fail THEN Answered(q, 500, "DELETE_ERROR")
         ELSE Answered(q, 200, "Organization deleted successfully")]
  /\ UNCHANGED <<now, api_keys, users, organizations, api_logs, apiKeys, rnd, ticks, resp,
                 last, rate_limits, restarts, websocket, sse>>

----------------------------------------------------------------------------
(* The websocket server (api/websocket.js).  websocket.activeConnections is
   the set of keys of the Map, websocket.connectionMetrics the counters and
   websocket.sockets the socket behind each connection id: readyState 0
   before the connection attempt, 1 OPEN, 2 CLOSING, 3 CLOSED; registered
   when the 'close' and 'error' handlers are attached; stale when
   lastActivity is more than staleTimeout ago *)

MaxConns == 2
ConnIds == 1..MaxConns

NoSocket == [readyState |-> 0, registered |-> FALSE, stale |-> FALSE]

(* wss.on('connection'): the token, the validation query (failAt = 1 is a
   failure of getNile() or of the query), then the entry in the Map, both
   counters and the handlers.  closedEarly: the peer went away during the
   awaits, before any handler was attached *)
WsConnect(c) ==
  /\ websocket.sockets[c] = NoSocket
  /\ \E token \in {NoToken} \cup KnownTokens, failAt \in {0, 1}, closedEarly \in BOOLEAN :
       IF token = NoToken \/ failAt = 1 \/ SelectKeyWithUser(token) = {}
         THEN websocket' = [websocket EXCEPT
                !.sockets[c] = [NoSocket EXCEPT !.readyState = IF closedEarly THEN 3 ELSE 2]]
       ELSE websocket' = [websocket EXCEPT
              !.activeConnections = @ \cup { c },
              !.connectionMetrics.totalConnections = @ + 1,
              !.connectionMetrics.activeConnections = @ + 1,
              !.sockets[c] = [readyState |-> IF closedEarly THEN 3 ELSE 1,
                              registered |-> ~ closedEarly, stale |-> FALSE]]
  /\ UNCHANGED <<now, api_keys, users, organizations, api_logs, apiKeys, rnd, ticks, resp,
                 last, rate_limits, restarts, inflight, sse>>

(* ws.on('message'): connectionInfo.lastActivity = new Date() *)
WsMessage(c) ==
  /\ websocket.sockets[c].readyState = 1
  /\ websocket.sockets[c].registered
  /\ websocket' = [websocket EXCEPT !.sockets[c].stale = FALSE]
  /\ UNCHANGED <<now, api_keys, users, organizations, api_logs, apiKeys, rnd, ticks, resp,
                 last, rate_limits, restarts, inflight, sse>>

(* staleTimeout passes without a message on the connection *)
WsQuiet(c) ==
  /\ c \in websocket.activeConnections
  /\ ~ websocket.sockets[c].stale
  /\ websocket' = [websocket EXCEPT !.sockets[c].stale = TRUE]
  /\ UNCHANGED <<now, api_keys, users, organizations, api_logs, apiKeys, rnd, ticks, resp,
                 last, rate_limits, restarts, inflight, sse>>

(* The socket closes, on the peer's close or at the end of a close the
   server began; ws.on('close') runs where it is attached *)
WsClose(c) ==
  /\ websocket.sockets[c].readyState \in {1, 2}
  /\ websocket' =
       IF websocket.sockets[c].registered
         THEN [websocket EXCEPT
                 !.activeConnections = @ \ { c },
                 !.connectionMetrics.activeConnections = @ - 1,
                 !.sockets[c].readyState = 3]
       ELSE [websocket EXCEPT !.sockets[c].readyState = 3]
  /\ UNCHANGED <<now, api_keys, users, organizations, api_logs, apiKeys, rnd, ticks, resp,
                 last, rate_limits, restarts, inflight, sse>>

(* ws.on('error'): the socket that failed is then closed by the library,
   which emits 'close' after 'error' *)
WsError(c) ==
  /\ websocket.sockets[c].readyState = 1
  /\ websocket.sockets[c].registered
  /\ websocket' = [websocket EXCEPT
       !.activeConnections = @ \ { c },
       !.connectionMetrics.activeConnections = @ - 1,
       !.sockets[c].readyState = 2]
  /\ UNCHANGED <<now, api_keys, users, organizations, api_logs, apiKeys, rnd, ticks, resp,
                 last, rate_limits, restarts, inflight, sse>>

(* The entries a cleanup removes *)
StaleConnections ==
  { c \in websocket.activeConnections :
      websocket.sockets[c].stale \/ websocket.sockets[c].readyState # 1 }

(* The interval callback: every stale entry leaves the Map and counts down,
   and its socket, when still OPEN, is closed with 4008 *)
cleanupStaleConnections ==
  /\ StaleConnections # {}
  /\ websocket' = [websocket EXCEPT
       !.activeConnections = @ \ StaleConnections,
       !.connectionMetrics.activeConnections = @ - Cardinality(StaleConnections),
       !.sockets = [c \in ConnIds |->
                      IF c \in StaleConnections /\ websocket.sockets[c].readyState = 1
                        THEN [websocket.sockets[c] EXCEPT !.readyState = 2]
                        ELSE websocket.sockets[c]]]
  /\ UNCHANGED <<now, api_keys, users, organizations, api_logs, apiKeys, rnd, ticks, resp,
                 last, rate_limits, restarts, inflight, sse>>

----------------------------------------------------------------------------
(* Streaming mode of POST /api/lynxa (api/lynxa.js lines 85-147 and its
   Claude-style variant).  sse.pc is "idle" before the request, "reading"
   inside the while loop and "returned" once the handler has returned;
   sse.out is what the handler did to res, in order: the strings written and
   "end" for res.end() *)

MaxReads == 3
MaxLines == 2

Variants == {"openai", "claude"}

(* The non-empty lines of an upstream chunk: a delta with content, a delta
   without, a data line that is no JSON, a line that is no data line, and
   the end marker *)
LineKinds == {"content", "nocontent", "malformed", "other", "[DONE]"}
Chunks == UNION { [1..n -> LineKinds] : n \in 1..MaxLines }

NoStream == [pc |-> "idle", variant |-> "openai", reads |-> 0, out |-> <<>>]

(* The res.write calls of one event: the Claude-style variant writes an
   event line before the data line *)
Writes(variant, event) ==
  IF variant = "claude" THEN <<"event", event>> ELSE <<event>>

(* The for loop over the lines of a chunk, from line i on: [DONE] writes the
   final event, ends the response and returns from the handler *)
RECURSIVE ForLines(_, _, _, _)
ForLines(variant, lines, i, out) ==
  IF i > Len(lines) THEN [out |-> out, returned |-> FALSE]
  ELSE IF lines[i] = "[DONE]"
    THEN [out |-> out \o Writes(variant, "stop") \o <<"end">>, returned |-> TRUE]
  ELSE IF lines[i] = "content"
    THEN ForLines(variant, lines, i + 1, out \o Writes(variant, "delta"))
  ELSE ForLines(variant, lines, i + 1, out)

(* A chat request with stream = true that passed authentication and
   validation and whose upstream answered ok: the headers are set and the
   reader is taken.  Every other path of the handler is that of Lynxa *)
StreamStart ==
  /\ sse.pc = "idle"
  /\ \E cred \in Credentials : LynxaAuth(cred.scheme, cred.token, TRUE).ok
  /\ \E variant \in Variants : sse' = [NoStream EXCEPT !.pc = "reading", !.variant = variant]
  /\ UNCHANGED <<now, api_keys, users, organizations, api_logs, apiKeys, rnd, ticks, resp,
                 last, rate_limits, restarts, inflight, websocket>>

(* One await reader.read() and what follows it: a chunk and the for loop
   over its lines, done = true and the break, or a rejection and the catch *)
StreamRead ==
  /\ sse.pc = "reading"
  /\ \E outcome \in {"chunk", "done", "throws"} :
       CASE outcome = "done" ->
              sse' = [sse EXCEPT !.pc = "returned"]
         [] outcome = "throws" ->
              sse' = [sse EXCEPT !.pc = "returned",
                                 !.out = @ \o Writes(sse.variant, "error") \o <<"end">>]
         [] outcome = "chunk" ->
              /\ sse.reads < MaxReads
              /\ \E lines \in Chunks :
                   LET after == ForLines(sse.variant, lines, 1, sse.out) IN
                   sse' = [sse EXCEPT !.reads = @ + 1, !.out = after.out,
                                      !.pc = IF after.returned THEN "returned" ELSE "reading"]
  /\ UNCHANGED <<now, api_keys, users, organizations, api_logs, apiKeys, rnd, ticks, resp,
                 last, rate_limits, restarts, inflight, websocket>>

(* The next streaming request, with its own response *)
StreamNext ==
  /\ sse.pc = "returned"
  /\ sse' = NoStream
  /\ UNCHANGED <<now, api_keys, users, organizations, api_logs, apiKeys, rnd, ticks, resp,
                 last, rate_limits, restarts, inflight, websocket>>

----------------------------------------------------------------------------
(* The system *)

(* The store as the schema script and the installation leave it: the default
   organization, and one super administrator holding one key *)
RootUserId == 1
RootToken == LynxToken(0, 0)

Init ==
  /\ now = 0
  /\ api_keys = { KeyRow(RootToken, <<>>, RootUserId, YearMs, 0) }
  /\ users = { [id |-> RootUserId, email |-> ROOT_EMAIL, role |-> "super_admin",
                organization_id |-> 1, is_active |-> TRUE] }
  /\ organizations = { [id |-> 1, name |-> "default", plan |-> "free"] }
  /\ api_logs = <<>>
  /\ apiKeys = {}
  /\ rnd = 0
  /\ ticks = 0
  /\ resp = NoResp
  /\ last = NoResp
  /\ rate_limits = {}
  /\ restarts = 0
  /\ inflight = [i \in ReqIds |-> Idle]
  /\ websocket = [activeConnections |-> {},
                  connectionMetrics |-> [totalConnections |-> 0, activeConnections |-> 0],
                  sockets |-> [c \in ConnIds |-> NoSocket]]
  /\ sse = NoStream

(* The role and the organizations the user-management requests name: the
   default role of a new user, no organization or one that does not exist *)
LifecycleRoles == {"user"}
LifecycleOrgs == {NoOrg, 2}

(* The store-backed deployment: the serverless handlers under api/ *)
Next ==
  \/ Tick
  \/ Deliver
  \/ GenerateKey
  \/ RevokeKey
  \/ RevokeKeyChecked
  \/ Lynxa(MaxLogs)
  \/ LynxaJwt
  \/ UsersCreate(LifecycleRoles, LifecycleOrgs)
  \/ UsersUpdate(LifecycleRoles, LifecycleOrgs)
  \/ UsersDelete
  \/ BillingWebhook

Spec == Init /\ [][Next]_vars

(* The two chat endpoints side by side: the store-backed handler and the
   Express server with its in-memory Map *)
NextServer ==
  \/ Tick
  \/ Deliver
  \/ GenerateKey
  \/ GenerateKeyMem
  \/ RevokeKey
  \/ Lynxa(MaxLogs)
  \/ LynxaMem

SpecServer == Init /\ [][NextServer]_vars

(* Revocation, with a client that compares each response with the one before *)
NextRevoke ==
  \/ DeliverKept
  \/ GenerateKey
  \/ RevokeKey
  \/ RevokeKeyChecked

SpecRevoke == Init /\ [][NextRevoke]_vars

(* One window of chat requests, long enough to pass the default rate limit *)
NextRate ==
  \/ Deliver
  \/ Lynxa(DefaultRateLimit + 1)

SpecRate == Init /\ [][NextRate]_vars

(* The Express server across restarts, with a client that keeps the key it
   was handed *)
NextRestart ==
  \/ DeliverKept
  \/ Restart
  \/ GenerateKeyMem
  \/ LynxaMem

SpecRestart == Init /\ [][NextRestart]_vars

(* The JWT variant of the chat handler, with a client that compares each
   response with the one before and also tries a signed token that was never
   stored *)
NextJwt ==
  \/ DeliverKept
  \/ GenerateKey
  \/ LynxaJwtWith(Credentials \cup { [scheme |-> "bearer", token |-> UnstoredJwt] })

SpecJwt == Init /\ [][NextJwt]_vars

(* The roles and organizations the requests of the multi-tenant deployment
   name *)
TenantRoles == {"user", "admin"}
TenantOrgs == {NoOrg, 1, 2}

(* The multi-tenant deployment: organizations and their users *)
NextTenants ==
  \/ Deliver
  \/ OrgsCreate
  \/ UsersCreate(TenantRoles, TenantOrgs)
  \/ UsersGet

SpecTenants == Init /\ [][NextTenants]_vars

(* Deleting users of the multi-tenant deployment, and the chat endpoint their
   keys are tried on *)
NextDelete ==
  \/ Deliver
  \/ OrgsCreate
  \/ UsersCreate(TenantRoles, TenantOrgs)
  \/ UsersDelete
  \/ UsersGet
  \/ Lynxa(MaxLogs)

SpecDelete == Init /\ [][NextDelete]_vars

(* The roles the requests of an administrator name *)
TeamRoles == {"admin", "super_admin"}

(* Role assignment: creating users and changing their roles, outside any
   organization *)
NextRoles ==
  \/ Deliver
  \/ UsersCreate(TeamRoles, {NoOrg})
  \/ UsersUpdate(TeamRoles, {NoOrg})

SpecRoles == Init /\ [][NextRoles]_vars

(* Concurrent requests for user creation and organization deletion.  The
   organizations are created while no concurrent request is being served,
   and a concurrent request arrives once that response has left *)
NextRace ==
  \/ Deliver
  \/ (\A i \in ReqIds : inflight[i] = Idle) /\ OrgsCreate
  \/ \E i \in ReqIds : Finish(i)
  \/ \E i \in ReqIds : resp = NoResp /\ CreateUserReceive(i)
  \/ \E i \in ReqIds : CreateUserSelectEmail(i)
  \/ \E i \in ReqIds : CreateUserInsertUser(i)
  \/ \E i \in ReqIds : CreateUserInsertKey(i)
  \/ \E i \in ReqIds : CreateUserAudit(i)
  \/ \E i \in ReqIds : resp = NoResp /\ DeleteOrgReceive(i)
  \/ \E i \in ReqIds : DeleteOrgSelect(i)
  \/ \E i \in ReqIds : DeleteOrgCount(i)
  \/ \E i \in ReqIds : DeleteOrgDelete(i)
  \/ \E i \in ReqIds : DeleteOrgAudit(i)

SpecRace == Init /\ [][NextRace]_vars

(* The websocket server and its connections *)
NextWs ==
  \/ \E c \in ConnIds : WsConnect(c)
  \/ \E c \in ConnIds : WsMessage(c)
  \/ \E c \in ConnIds : WsQuiet(c)
  \/ \E c \in ConnIds : WsClose(c)
  \/ \E c \in ConnIds : WsError(c)
  \/ cleanupStaleConnections

SpecWs == Init /\ [][NextWs]_vars

(* Streaming chat requests, one after the other *)
NextStream ==
  \/ StreamStart
  \/ StreamRead
  \/ StreamNext

SpecStream == Init /\ [][NextStream]_vars

(* Plans: the members of the seeded organization, the organization updates
   and the billing webhook *)
NextPlans ==
  \/ Deliver
  \/ UsersCreate(LifecycleRoles, {NoOrg, 1})
  \/ OrgsUpdate
  \/ BillingWebhook

SpecPlans == Init /\ [][NextPlans]_vars

(* Key issuance by both issuing handlers, and the listing of a user's keys *)
NextKeys ==
  \/ Tick
  \/ Deliver
  \/ GenerateKey
  \/ UsersCreate(LifecycleRoles, LifecycleOrgs)
  \/ ListKeys

SpecKeys == Init /\ [][NextKeys]_vars

----------------------------------------------------------------------------
(* Properties *)

(* Handlers that validate a key before doing anything else *)
UsersOps == {"users_create", "users_update", "users_delete", "billing_webhook"}
ProtectedOps == {"lynxa", "lynxa_jwt"} \cup UsersOps
RevokeOps == {"revoke", "revoke_checked"}

(* C1, as the claim states it: on every protected endpoint a bearer token is
   accepted exactly when the store holds a record for that token with
   revoked = false and now < expires (the store lookup itself succeeding). *)
C1_Original ==
  (resp.op \in ProtectedOps /\ resp.scheme = "bearer" /\ (resp.next \/ resp.db))
    => (resp.next <=>
          \E k \in api_keys : k.api_key = resp.token /\ k.revoked = FALSE /\ now < k.expires)

(* C1, amended: POST /api/lynxa of api/lynxa.js accepts a bearer token exactly
   when the store holds an unrevoked, unexpired record for it; the JWT variant
   accepts it exactly when, in addition, the token is a JWT signed with the
   server secret whose exp has not passed; /api/users and /api/billing accept
   it exactly when, in addition, the record's user_id names a row of users.
   The answer is computed from the store as it is at the request. *)
C1_ValidationFromStore ==
  LET usable == { k \in api_keys :
                    k.api_key = resp.token /\ k.revoked = FALSE /\ now < k.expires }
      asked == resp.next \/ resp.db
  IN
  /\ (resp.op = "lynxa" /\ resp.scheme = "bearer" /\ asked)
       => (resp.next <=> usable # {})
  /\ (resp.op = "lynxa_jwt" /\ resp.scheme = "bearer" /\ asked)
       => (resp.next <=>
             /\ usable # {}
             /\ resp.token.kind = "jwt"
             /\ resp.token.sig = JWT_SECRET
             /\ now \div ClockPerSec < resp.token.exp)
  /\ (resp.op \in UsersOps /\ resp.scheme # "absent" /\ asked)
       => (resp.next <=> \E k \in usable : \E u \in users : u.id = k.user_id)

(* A token that an earlier request was served with (its usage row is in
   api_logs) is turned away once its record is revoked *)
C1_Witness ==
  /\ resp.op = "lynxa"
  /\ resp.scheme = "bearer"
  /\ resp.status = 401
  /\ \E i \in 1..Len(api_logs) : api_logs[i].api_key = resp.token
  /\ \E k \in api_keys : k.api_key = resp.token /\ k.revoked

(* C2, as the claim states it: a token whose record is revoked is rejected with
   an outcome of its own, different from the answer an unknown token gets. *)
C2_Original ==
  LET unknown == LynxaAuth("bearer", GarbageToken, TRUE) IN
  (resp.op = "lynxa" /\ resp.scheme = "bearer" /\ resp.db
     /\ \E k \in api_keys : k.api_key = resp.token /\ k.revoked)
    => /\ ~ resp.next
       /\ <<resp.status, resp.msg>> # <<unknown.status, unknown.msg>>

(* C2, amended: a token whose record is revoked is rejected by POST /api/lynxa
   with HTTP 401 whether or not it has also expired; the response is the one
   message shared with expired and unknown tokens. *)
C2_RevokedRejected ==
  (resp.op = "lynxa" /\ resp.scheme = "bearer" /\ resp.db
     /\ \E k \in api_keys : k.api_key = resp.token /\ k.revoked)
    => /\ ~ resp.next
       /\ resp.status = 401
       /\ resp.msg = "Invalid, expired, or revoked NEXARIQ_API_KEY"

(* A revoked key that has not expired is rejected *)
C2_Witness ==
  /\ resp.op = "lynxa"
  /\ resp.scheme = "bearer"
  /\ resp.db
  /\ resp.status = 401
  /\ \E k \in api_keys : k.api_key = resp.token /\ k.revoked /\ now < k.expires

(* C3, as the claim states it: an unrevoked key issued by generate-key at time
   t (created_at) validates to its owner at every now < t + 30 days, and is
   rejected at every now >= expires. *)
C3_Original ==
  (resp.op = "lynxa" /\ resp.scheme = "bearer" /\ resp.db)
    => \A k \in api_keys :
         (k.api_key = resp.token /\ k.api_key.kind = "jwt" /\ k.revoked = FALSE)
           => /\ (now < k.created_at + LifetimeMs) => (resp.next /\ resp.user = k.email)
              /\ (now >= k.expires) => (~ resp.next /\ resp.status = 401)

(* C3, amended: a key issued by generate-key expires 30 days after its issue
   time truncated to the whole second; while unrevoked it validates to its
   owner's e-mail at every now < expires and is rejected with 401 at every
   now >= expires. *)
C3_Lifetime ==
  /\ \A k \in api_keys :
       k.api_key.kind = "jwt"
         => k.expires = (k.created_at \div ClockPerSec) * ClockPerSec + LifetimeSec * ClockPerSec
  /\ (resp.op = "lynxa" /\ resp.scheme = "bearer" /\ resp.db)
       => \A k \in api_keys :
            (k.api_key = resp.token /\ k.api_key.kind = "jwt" /\ k.revoked = FALSE)
              => IF now < k.expires
                   THEN resp.next /\ resp.user = k.email
                   ELSE ~ resp.next /\ resp.status = 401

(* An unrevoked key is rejected less than 30 days after it was issued *)
C3_Witness ==
  /\ resp.op = "lynxa"
  /\ resp.scheme = "bearer"
  /\ resp.db
  /\ resp.status = 401
  /\ \E k \in api_keys :
       /\ k.api_key = resp.token
       /\ k.api_key.kind = "jwt"
       /\ k.revoked = FALSE
       /\ now >= k.expires
       /\ now < k.created_at + LifetimeMs

(* C4: a bearer token for which the key store holds no record is answered 401
   and the request never reaches the chat handler: on POST /api/lynxa of
   api/lynxa.js (store available) and behind apiKeyAuth of the Express server;
   no usage row is ever written for a token without a record. *)
C4_UnknownTokenRejected ==
  /\ (resp.op = "lynxa" /\ resp.scheme = "bearer" /\ resp.db
        /\ ~ \E k \in api_keys : k.api_key = resp.token)
       => (resp.status = 401 /\ ~ resp.next)
  /\ (resp.op = "lynxa_mem" /\ resp.scheme = "bearer"
        /\ ~ \E m \in apiKeys : m.hash = HmacHex(API_KEY_SECRET, resp.token))
       => (resp.status = 401 /\ ~ resp.next)
  /\ \A i \in 1..Len(api_logs) : \E k \in api_keys : k.api_key = api_logs[i].api_key

(* The Express server, holding a key, turns away a token it never issued *)
C4_Witness ==
  /\ resp.op = "lynxa_mem"
  /\ resp.scheme = "bearer"
  /\ resp.status = 401
  /\ apiKeys # {}
  /\ ~ \E m \in apiKeys : m.hash = HmacHex(API_KEY_SECRET, resp.token)

(* C5, as the claim states it: every issuance for a valid owner, the store
   being available, succeeds and leaves a record of its own for the token it
   hands out, also when the same owner was issued a key in the same second. *)
C5_Original ==
  (resp.op = "generate" /\ resp.status # 405 /\ resp.db
     /\ resp.input.t = "string" /\ endsWith(resp.input.s, GMAIL_SUFFIX))
    => /\ resp.status = 200
       /\ \E k \in api_keys : k.api_key = resp.issued /\ k.email = resp.input.s

(* C6: once a key record has revoked = true it keeps it: no step of issue,
   revoke, validate, user create, update or delete, or billing removes the
   record or clears the flag. *)
C6_RevokedOneWay ==
  [][\A k \in api_keys :
       k.revoked => \E k2 \in api_keys' : k2.api_key = k.api_key /\ k2.revoked]_vars

(* A revoked key of nobody's is still revoked after another user was deleted *)
C6_Witness ==
  /\ resp.op = "users_delete"
  /\ resp.status = 200
  /\ \E k \in api_keys : k.revoked /\ k.user_id = NoUser

(* C7: revoking is idempotent: a revoke call that follows a successful revoke
   call for the same token gets the same response, and leaves the key records
   as they were. *)
C7_RevokeIdempotent ==
  [][(/\ resp'.op \in RevokeOps
      /\ resp'.db
      /\ last.op = resp'.op
      /\ last.token = resp'.token
      /\ last.status = 200)
       => (resp' = last /\ api_keys' = api_keys)]_vars

(* The second of two revoke calls for a key that exists has been answered *)
C7_Witness ==
  /\ resp.op = "revoke_checked"
  /\ resp.status = 200
  /\ last.op = "revoke_checked"
  /\ last.status = 200
  /\ last.token = resp.token
  /\ \E k \in api_keys : k.api_key = resp.token /\ k.revoked

(* C8, as the claim states it: revoking a token that has no record is answered
   NotFound (404). *)
C8_Original ==
  (resp.op \in RevokeOps /\ resp.db /\ resp.token # NoToken
     /\ ~ \E k \in api_keys : k.api_key = resp.token)
    => resp.status = 404

(* C9, as the claim states it: an issuance request whose e-mail is missing or
   is no Gmail address is answered 400. *)
C9_Original ==
  (resp.op = "generate" /\ resp.status # 405
     /\ ~ (resp.input.t = "string" /\ endsWith(resp.input.s, GMAIL_SUFFIX)))
    => resp.status = 400

(* C10, as the claim states it: a chat request is served only while the
   requests recorded for its key in the current window do not exceed the
   key's rate_limit. *)
C10_Original ==
  (resp.op = "lynxa" /\ resp.status = 200)
    => \A k \in api_keys :
         k.api_key = resp.token
           => Cardinality({ i \in 1..Len(api_logs) :
                              /\ api_logs[i].api_key = resp.token
                              /\ api_logs[i].created_at \div WindowMs = now \div WindowMs })
                <= k.rate_limit

(* The rate_limits schema: UNIQUE(api_key_id, endpoint, window_start) leaves
   at most one row per key, endpoint and window; requests_count is 0 where
   there is none *)
requestsCount(token, endpoint, window) ==
  LET rows == { l \in rate_limits :
                  l.api_key = token /\ l.endpoint = endpoint /\ l.window_start = window }
  IN IF rows = {} THEN 0 ELSE (CHOOSE l \in rows : TRUE).requests_count

(* C11, as the claim states it: the requests_count of a key's window counts
   every request processed on that key in the window, none lost, so it is
   never below the number of requests the usage log records for the key in
   that window. *)
C11_Original ==
  \A i \in 1..Len(api_logs) :
    requestsCount(api_logs[i].api_key, "/api/lynxa", api_logs[i].created_at \div WindowMs)
      >= Cardinality({ j \in 1..Len(api_logs) :
                         /\ api_logs[j].api_key = api_logs[i].api_key
                         /\ api_logs[j].created_at \div WindowMs
                              = api_logs[i].created_at \div WindowMs })

(* C12, as the claim states it: a chat request that got past key validation
   adds exactly one usage event, whatever its outcome and whether streaming
   or not (an insert the store refused aside); a request stopped at
   authentication adds none. *)
C12_Original ==
  [][(resp'.op = "lynxa" /\ resp.op = "none")
       => IF resp'.next
            THEN resp'.log # "failed" => Len(api_logs') = Len(api_logs) + 1
            ELSE api_logs' = api_logs]_vars

(* C13: when the usage insert fails, the caller gets exactly the response a
   successful insert would have produced, HTTP 200 with the completion; the
   failure shows nowhere but in the server's console. *)
C13_LogFailureSwallowed ==
  (resp.op = "lynxa" /\ resp.log = "failed")
    => /\ resp.status = 200
       /\ resp.msg = "chat.completion"
       /\ [resp EXCEPT !.log = "ok"]
            = ChatReply(Admitted("lynxa", [scheme |-> resp.scheme, token |-> resp.token],
                                 [email |-> resp.user]), TRUE)

C13_Witness ==
  /\ resp.op = "lynxa"
  /\ resp.next
  /\ resp.log = "failed"
  /\ resp.status = 200
  /\ api_logs = <<>>

(* C14, as the claim states it: every key record a key-creating operation
   adds expires 30 days after its issue time (compared in whole seconds). *)
C14_Original ==
  [][\A k \in api_keys' :
       (~ \E k0 \in api_keys : k0.api_key = k.api_key)
         => k.expires \div ClockPerSec = k.created_at \div ClockPerSec + LifetimeSec]_vars

(* C14, as the code has it: a record added by generate-key (no user_id)
   expires 30 days after the whole second it was issued in; the default key
   added with a new user expires one year after it was issued. *)
C14_LifetimeByOperation ==
  [][\A k \in api_keys' :
       (~ \E k0 \in api_keys : k0.api_key = k.api_key)
         => IF k.user_id = NoUser
              THEN k.expires = (k.created_at \div ClockPerSec + LifetimeSec) * ClockPerSec
              ELSE k.expires = k.created_at + YearMs]_vars

(* A user and its default key were just created, in a store that holds a key
   generate-key issued half a second past the full second *)
C14_Witness ==
  /\ resp.op = "users_create"
  /\ resp.status = 201
  /\ \E k \in api_keys : k.api_key = resp.issued /\ k.created_at = now
  /\ \E k \in api_keys : k.user_id = NoUser /\ k.created_at % ClockPerSec # 0

(* C15: once created, a key record changes by revocation only: every step
   leaves each record as it was or sets its revoked flag, so token, owner
   (email, user_id), expires and created_at stay what they were at issuance,
   and no step removes a record. *)
C15_ChangedOnlyByRevocation ==
  [][\A k \in api_keys :
       \E k2 \in api_keys' : k2 = k \/ k2 = [k EXCEPT !.revoked = TRUE]]_vars

(* Revocation by token has acted on a key that one more key was issued after *)
C15_Witness ==
  /\ resp.op \in RevokeOps
  /\ resp.status = 200
  /\ \E k \in api_keys : k.api_key = resp.token /\ k.revoked
  /\ Cardinality(api_keys) >= 2

(* C16: validation is a pure read: a request to a protected endpoint whose
   credential is missing, or names no record that is unrevoked and unexpired,
   leaves api_keys, api_logs, users, organizations and rate_limits as they
   were. *)
C16_RejectedIsPureRead ==
  [][(/\ resp.op = "none"
      /\ resp'.op \in ProtectedOps
      /\ \/ resp'.scheme = "absent"
         \/ ~ \E k \in api_keys :
                k.api_key = resp'.token /\ k.revoked = FALSE /\ k.expires > now)
       => /\ api_keys' = api_keys
          /\ api_logs' = api_logs
          /\ users' = users
          /\ organizations' = organizations
          /\ rate_limits' = rate_limits]_vars

(* A user-management request presenting a revoked key has been turned away *)
C16_Witness ==
  /\ resp.op \in UsersOps
  /\ resp.status = 401
  /\ ~ resp.next
  /\ \E k \in api_keys : k.api_key = resp.token /\ k.revoked

(* C17, as the claim states it: on every protected endpoint a request without
   an Authorization: Bearer header is answered 401 and stops there; a token in
   any other form is never accepted. *)
C17_Original ==
  (resp.op \in ProtectedOps /\ resp.status # 405 /\ resp.scheme # "bearer")
    => (~ resp.next /\ resp.status = 401)

(* C17, as the code has it: the chat endpoints accept a key only from
   Authorization: Bearer and answer anything else 401 before any lookup; the
   user-management and billing endpoints take the key from X-API-Key or from
   Authorization with or without the Bearer prefix, and a request with neither
   header stops at authentication, with 401 MISSING_API_KEY unless the store
   connection itself failed (500). *)
C17_BearerOnChatEndpoints ==
  /\ (resp.op \in {"lynxa", "lynxa_jwt"} /\ resp.status # 405 /\ resp.scheme # "bearer")
       => (~ resp.next /\ resp.status = 401 /\ resp.db /\ resp.token = NoToken)
  /\ (resp.op \in UsersOps /\ resp.scheme = "absent")
       => /\ ~ resp.next
          /\ resp.status \in {401, 500}
          /\ resp.status = 401 => resp.msg = "MISSING_API_KEY"

(* A chat request carrying its token in X-API-Key has been answered *)
C17_Witness ==
  /\ resp.op = "lynxa"
  /\ resp.scheme = "xkey"
  /\ resp.status = 401

(* C18, as the claim states it: a key-store failure during validation is
   never answered with HTTP 401. *)
C18_Original ==
  (resp.op \in ProtectedOps /\ ~ resp.next /\ ~ resp.db) => resp.status # 401

(* C19, as the claim states it: a key that was issued stays valid across
   restarts: a chat request presenting the key the client was handed gets
   past authentication, whatever number of restarts lies in between (keys of
   the Express server are never revoked and never expire). *)
C19_Original ==
  (/\ last.op = "generate_mem"
   /\ last.status = 200
   /\ resp.op = "lynxa_mem"
   /\ resp.scheme = "bearer"
   /\ resp.token = last.issued)
    => resp.next

(* C20, as the claim states it: every key that was issued is returned when
   its owner lists their keys, so some logged-in user's listing returns it;
   and a listing returns the keys of the user who asked, all of them and no
   others, newest first. *)
C20_Original ==
  /\ \A k \in api_keys :
       \E p \in SessionUserIds \ { NoUser } : ListedColumns(k) \in SelectKeysOfUser(p)
  /\ (resp.op = "list_keys" /\ resp.status = 200)
       => /\ { resp.keys[i] : i \in 1..Len(resp.keys) } = SelectKeysOfUser(resp.owner)
          /\ \A i, j \in 1..Len(resp.keys) :
               i < j => resp.keys[i].created_at >= resp.keys[j].created_at

(* C21, as the claim states it: no response that lists keys carries a
   complete token: the api_key of a listed row is never the token of a key
   record. *)
C21_Original ==
  (resp.op \in {"list_keys", "users_get"} /\ resp.status = 200)
    => \A i \in 1..Len(resp.keys) :
         ~ \E k \in api_keys : k.api_key = resp.keys[i].api_key

(* C22, as the claim states it: the rejection of a token that was never in
   the store and the rejection of a token that fails parsing or signature
   verification carry the same status and the same message. *)
C22_Original ==
  (/\ last.op = "lynxa_jwt" /\ last.scheme = "bearer" /\ ~ last.next /\ last.db
   /\ resp.op = "lynxa_jwt" /\ resp.scheme = "bearer" /\ ~ resp.next /\ resp.db
   /\ ~ \E k \in api_keys : k.api_key = last.token
   /\ ~ JwtVerifyOk(resp.token, JWT_SECRET, now))
    => (resp.status = last.status /\ resp.msg = last.msg)

(* C23, as the claim states it: a GET /api/users response to a caller who is
   a member of an organization and no super_admin carries no user record of
   another organization. *)
C23_Original ==
  (resp.op = "users_get" /\ resp.status = 200)
    => \A caller \in users :
         (/\ caller.email = resp.user
          /\ caller.role # "super_admin"
          /\ caller.organization_id # NoOrg)
           => \A u \in resp.users :
                u.organization_id \in {NoOrg, caller.organization_id}

(* C24: a DELETE /api/users answered with success has deactivated one user
   other than the caller, of the caller's organization unless the caller is
   a super_admin, and has revoked every key of that user, leaving all other
   users and keys as they were; a revoked key stays revoked, and a request
   only ever gets past authentication with a key that is not revoked, so none
   of the deleted user's keys authenticates afterwards. *)
C24_DeletedUserLockedOut ==
  [][/\ (resp'.op = "users_delete" /\ resp'.status = 200)
          => \E caller \in users, target \in users :
               /\ caller.email = resp'.user
               /\ target.id # caller.id
               /\ caller.role \in {"admin", "super_admin"}
               /\ caller.role = "admin" => target.organization_id = caller.organization_id
               /\ users' = (users \ { target }) \cup { [target EXCEPT !.is_active = FALSE] }
               /\ \A k \in api_keys' : k.user_id = target.id => k.revoked
               /\ \A k \in api_keys : k.user_id # target.id => k \in api_keys'
     /\ (resp.op = "none" /\ resp'.next /\ resp'.op \in ProtectedOps \cup {"users_get", "orgs_create"})
          => \E k \in api_keys : k.api_key = resp'.token /\ k.revoked = FALSE
     /\ \A k \in api_keys : k.revoked => k \in api_keys']_vars

(* An admin has deleted a user of its own organization, whose key is revoked *)
C24_Witness ==
  /\ resp.op = "users_delete"
  /\ resp.status = 200
  /\ \E caller \in users, target \in users :
       /\ caller.email = resp.user
       /\ caller.role = "admin"
       /\ target.organization_id = caller.organization_id
       /\ ~ target.is_active
       /\ \E k \in api_keys : k.user_id = target.id /\ k.revoked

(* C25, as the claim states it: with the roles ordered user < org_admin <
   admin < super_admin, a user created by POST /api/users, or given a role by
   PUT /api/users, never gets a role above that of the caller. *)
C25_Original ==
  [][LET rank(role) == CASE role = "user" -> 1
                         [] role = "org_admin" -> 2
                         [] role = "admin" -> 3
                         [] role = "super_admin" -> 4
     IN
     (resp.op = "none" /\ resp'.op \in {"users_create", "users_update"} /\ resp'.next)
       => \A caller \in users :
            caller.email = resp'.user
              => \A u \in users' :
                   (~ \E u0 \in users : u0.id = u.id /\ u0.role = u.role)
                     => rank(u.role) <= rank(caller.role)]_vars

(* C26, as the claim states it: the plan of an organization changes only in
   a billing webhook or in a request of a caller whose role is admin or
   super_admin, never in a request of a caller whose role is user. *)
C26_Original ==
  [][(\E o \in organizations : \E o2 \in organizations' : o2.id = o.id /\ o2.plan # o.plan)
       => \/ resp'.op = "billing_webhook"
          \/ \E caller \in users :
               caller.email = resp'.user /\ caller.role \in {"admin", "super_admin"}]_vars

(* C27: in every reachable state each user's organization_id is empty or
   the id of a stored organization, also when DELETE /api/organizations and
   POST /api/users for the same organization interleave query by query: a
   user stored during the deletion is left without an organization, and an
   INSERT after the deletion is refused by the foreign key. *)
C27_NoMemberOfDeletedOrg ==
  /\ \A u \in users :
       u.organization_id = NoOrg \/ \E o \in organizations : o.id = u.organization_id
  /\ \A i \in ReqIds :
       (inflight[i].op = "users_create" /\ inflight[i].created # NoUser)
         => \A u \in users :
              u.id = inflight[i].created
                => u.organization_id \in {NoOrg, inflight[i].org}

(* Both requests went through: the organization was deleted between the
   member count and the response of a user creation that named it *)
C27_Witness ==
  \E i, j \in ReqIds :
    /\ inflight[i].op = "orgs_delete" /\ inflight[i].status = 200
    /\ inflight[j].op = "users_create" /\ inflight[j].status = 201
    /\ inflight[j].org = inflight[i].org
    /\ \E u \in users : u.id = inflight[j].created /\ u.organization_id = NoOrg
    /\ ~ \E o \in organizations : o.id = inflight[i].org

(* C28, as the claim states it: no two stored users have e-mails equal
   ignoring letter case, also while two POST /api/users requests for such
   e-mails are served concurrently, and a request answered with 409
   EMAIL_EXISTS has stored no user. *)
C28_Original ==
  /\ \A u1, u2 \in users : Lower(u1.email) = Lower(u2.email) => u1 = u2
  /\ \A i \in ReqIds :
       (inflight[i].op = "users_create" /\ inflight[i].msg = "EMAIL_EXISTS")
         => inflight[i].created = NoUser

(* C29, as the claim states it: after any sequence of connect, close, error
   and cleanup events connectionMetrics.activeConnections is the number of
   entries of the activeConnections Map, and it is never negative. *)
C29_Original ==
  /\ websocket.connectionMetrics.activeConnections = Cardinality(websocket.activeConnections)
  /\ websocket.connectionMetrics.activeConnections >= 0

(* C30, as the claim states it: a streaming response is ended exactly once
   whatever the upstream does, and nothing is written after the end.  The
   handler has no callback left once it has returned, so a response that is
   not ended by then never is: when the handler has returned, "end" occurs
   exactly once in what it did to the response, and at any time "end" occurs
   at most once and only as the last entry. *)
C30_Original ==
  /\ \A i \in 1..Len(sse.out) : sse.out[i] = "end" => i = Len(sse.out)
  /\ sse.pc = "returned" => (sse.out # <<>> /\ sse.out[Len(sse.out)] = "end")

====
